---- MODULE Spec2Model ----
(***************************************************************************)
(* Model of the text-to-bit codecs of claudetexter: the LZ77 coder         *)
(* (LZ77.py), the fixed-width 6-bit and 7-bit coders, the Huffman coder    *)
(* (huffman.py) and the dispatch facade (compression.py).                  *)
(*                                                                         *)
(* Texts are sequences of Unicode code points, byte strings are sequences  *)
(* of 0..255, bitarrays are sequences of 0/1.  Python indices are 0-based; *)
(* PySlice(s, a, b) is Python's s[a:b].                                    *)
(***************************************************************************)
EXTENDS Integers, Sequences, FiniteSets, TLC

VARIABLES
    name,           \* the method name given to Compressor(...), as code points
    argtype,        \* the Python type of the value given to the last facade call
    method,         \* the codec under execution (Compressor.method)
    pc,             \* position of the running call
    plaintext,      \* the text given to compress
    channel,        \* how the compressed bits reach decompress
    compressed,     \* the bitarray given to decompress
    ret,            \* the value (or exception) the last call returned
    window_size,    \* LZ77Compressor.window_size
    data,           \* LZ77: compress_data's bytes / decompress's remaining bits
    i,              \* LZ77: compress_data's position in data
    output_buffer,  \* LZ77: compress_data's bits / decompress's list of bytes
    tokens,         \* LZ77: the tokens emitted so far (the verbose trace)
    heap,           \* Huffman: build_tree's list of nodes
    tree,           \* Huffman: the code table held by the caller
    storage,        \* server: the db files of STORAGE_PATH, by delivery path
    handlers        \* server: the running store_message calls, by request

vars == <<storage, handlers, name, argtype, method, pc, plaintext, channel, compressed, ret, window_size, data, i,
          output_buffer, tokens, heap, tree>>

(***************************************************************************)
(* Bounds of the model.                                                    *)
(***************************************************************************)
\* longest text over LZAlphabet that is enumerated exhaustively
MaxTextLen == 5
\* longest periodic text (longer than the lookahead buffer)
MaxLongLen == 18
\* longest period of a periodic text
MaxPeriod == 3
\* largest small window size tried
MaxSmallWindow == 4
\* longest text over FixedSample given to the fixed-width coders
MaxFixedLen == 3
\* most bits cut off a compressed stream
MaxDropped == 3
\* longest bit stream given to a decompress call from outside
MaxStreamBits == 8
\* most whole chunks in a stream given to a fixed-width decompress call
MaxChunks == 2
\* longest text given to the fixed-width coders (a text of 8 characters
\* fills whole bytes with both)
MaxRunLen == 8
\* longest text over HuffmanAlphabet given to the Huffman coder
MaxHuffmanLen == 5

(***************************************************************************)
(* Python values.                                                          *)
(***************************************************************************)
Min(a, b) == IF a < b THEN a ELSE b
Max(a, b) == IF a > b THEN a ELSE b

\* s[a:b] for 0 <= a, 0 <= b
PySlice(s, a, b) ==
    LET hi == Min(b, Len(s))
    IN  IF hi <= a THEN <<>> ELSE [k \in 1..(hi - a) |-> s[a + k]]

\* s * n
RECURSIVE PyRepeat(_, _)
PyRepeat(s, n) == IF n <= 0 THEN <<>> ELSE s \o PyRepeat(s, n - 1)

\* a returned value, or a raised exception
Ok(t, v) == [ok |-> TRUE, type |-> t, val |-> v, err |-> ""]
Raise(e) == [ok |-> FALSE, type |-> "exception", val |-> <<>>, err |-> e]
None == Ok("NoneType", <<>>)

\* a | b on non-negative integers
RECURSIVE BitOr(_, _)
BitOr(a, b) ==
    IF a = 0 THEN b
    ELSE IF b = 0 THEN a
    ELSE (IF a % 2 = 1 \/ b % 2 = 1 THEN 1 ELSE 0) + 2 * BitOr(a \div 2, b \div 2)

\* a & b on non-negative integers
RECURSIVE BitAnd(_, _)
BitAnd(a, b) ==
    IF a = 0 \/ b = 0 THEN 0
    ELSE (IF a % 2 = 1 /\ b % 2 = 1 THEN 1 ELSE 0) + 2 * BitAnd(a \div 2, b \div 2)

\* the w low bits of n, most significant first (format(n, "0wb") when n < 2^w;
\* bitarray.frombytes(bytes([n])) when w = 8)
RECURSIVE ToBits(_, _)
ToBits(n, w) == IF w = 0 THEN <<>> ELSE ToBits(n \div 2, w - 1) \o <<n % 2>>

\* int(bits.to01(), 2)
RECURSIVE FromBits(_)
FromBits(bits) ==
    IF bits = <<>> THEN 0
    ELSE 2 * FromBits(SubSeq(bits, 1, Len(bits) - 1)) + bits[Len(bits)]

\* format(n, "0wb"): at least w digits, more when n >= 2^w
RECURSIVE Format0b(_, _)
Format0b(n, w) ==
    IF n < 2 THEN ToBits(0, w - 1) \o <<n>>
    ELSE Format0b(n \div 2, Max(w - 1, 1)) \o <<n % 2>>

\* bitarray.fill(): zero bits up to the next multiple of 8
Fill(bits) == bits \o [k \in 1..((8 - (Len(bits) % 8)) % 8) |-> 0]

\* a tobytes that leaves out the bits after the last whole byte
RECURSIVE ToBytesWhole(_)
ToBytesWhole(bits) ==
    IF Len(bits) < 8 THEN <<>>
    ELSE <<FromBits(SubSeq(bits, 1, 8))>> \o ToBytesWhole(PySlice(bits, 8, Len(bits)))

\* bitarray.tobytes(): the bits, zero padded, as bytes
RECURSIVE ToBytes(_)
ToBytes(bits) ==
    IF bits = <<>> THEN <<>>
    ELSE IF Len(bits) < 8 THEN <<FromBits(Fill(bits))>>
    ELSE <<FromBits(SubSeq(bits, 1, 8))>> \o ToBytes(PySlice(bits, 8, Len(bits)))

\* bitarray.frombytes with the bits of each byte least significant first
RECURSIVE FromBytesLsbFirst(_)
FromBytesLsbFirst(bytes) ==
    IF bytes = <<>> THEN <<>>
    ELSE [j \in 1..8 |-> (Head(bytes) \div (2 ^ (j - 1))) % 2]
         \o FromBytesLsbFirst(Tail(bytes))

\* bitarray(endian="big").frombytes(bytes)
RECURSIVE FromBytes(_)
FromBytes(bytes) ==
    IF bytes = <<>> THEN <<>> ELSE ToBits(Head(bytes), 8) \o FromBytes(Tail(bytes))

\* the UTF-8 bytes of one code point that is not a surrogate
Utf8Bytes(c) ==
    IF c < 128 THEN <<c>>
    ELSE IF c < 2048 THEN <<192 + (c \div 64), 128 + (c % 64)>>
    ELSE IF c < 65536
    THEN <<224 + (c \div 4096), 128 + ((c \div 64) % 64), 128 + (c % 64)>>
    ELSE <<240 + (c \div 262144), 128 + ((c \div 4096) % 64),
           128 + ((c \div 64) % 64), 128 + (c % 64)>>

\* U+D800..U+DFFF
IsSurrogate(c) == c >= 55296 /\ c <= 57343

\* str.encode('utf-8'); <<-1>> is UnicodeEncodeError (a lone surrogate)
RECURSIVE Utf8Encode(_)
Utf8Encode(text) ==
    IF text = <<>> THEN <<>>
    ELSE LET c == Head(text)
             rest == Utf8Encode(Tail(text))
         IN  IF IsSurrogate(c) \/ rest = <<-1>> THEN <<-1>>
             ELSE Utf8Bytes(c) \o rest

\* a continuation byte 10xxxxxx
IsContinuation(b) == b >= 128 /\ b <= 191

\* the sequence starting bytes, when it is a well-formed one: its length and
\* its code point; <<0, 0>> when it is not (a stray or missing continuation
\* byte, an overlong form, a surrogate, a code point above U+10FFFF)
Utf8First(bytes) ==
    LET b == Head(bytes)
        n == Len(bytes)
    IN  IF b < 128 THEN <<1, b>>
        ELSE IF b >= 194 /\ b <= 223 /\ n >= 2 /\ IsContinuation(bytes[2])
        THEN <<2, (b - 192) * 64 + (bytes[2] - 128)>>
        ELSE IF b >= 224 /\ b <= 239 /\ n >= 3
                /\ IsContinuation(bytes[2]) /\ IsContinuation(bytes[3])
        THEN LET c == (b - 224) * 4096 + (bytes[2] - 128) * 64 + (bytes[3] - 128)
             IN  IF c < 2048 \/ IsSurrogate(c) THEN <<0, 0>> ELSE <<3, c>>
        ELSE IF b >= 240 /\ b <= 244 /\ n >= 4 /\ IsContinuation(bytes[2])
                /\ IsContinuation(bytes[3]) /\ IsContinuation(bytes[4])
        THEN LET c == (b - 240) * 262144 + (bytes[2] - 128) * 4096
                      + (bytes[3] - 128) * 64 + (bytes[4] - 128)
             IN  IF c < 65536 \/ c > 1114111 THEN <<0, 0>> ELSE <<4, c>>
        ELSE <<0, 0>>

\* bytes.decode('utf-8'); <<-1>> is UnicodeDecodeError
RECURSIVE Utf8Decode(_)
Utf8Decode(bytes) ==
    IF bytes = <<>> THEN <<>>
    ELSE LET first == Utf8First(bytes)
         IN  IF first[1] = 0 THEN <<-1>>
             ELSE LET rest == Utf8Decode(PySlice(bytes, first[1], Len(bytes)))
                  IN  IF rest = <<-1>> THEN rest ELSE <<first[2]>> \o rest

(***************************************************************************)
(* LZ77.py: LZ77Compressor.                                                *)
(***************************************************************************)
MAX_WINDOW_SIZE == 400
lookahead_buffer_size == 15
DefaultWindowSize == 20

\* __init__: the configured window, clamped
LZ77WindowSize(configured) == Min(configured, MAX_WINDOW_SIZE)

\* findLongestMatch returned None
NoMatch == <<-1, -1>>

\* a lookahead longer than the 4-bit length field holds
EndOfBufferLong(d, current_position) ==
    Min(current_position + lookahead_buffer_size + 5, Len(d) + 1)

\* min(current_position + lookahead_buffer_size, len(data) + 1)
EndOfBuffer(d, current_position) ==
    Min(current_position + lookahead_buffer_size, Len(d) + 1)

\* a search that ignores the window
StartIndexWholeInput(current_position, ws) == 0

\* max(0, current_position - window_size)
StartIndex(current_position, ws) == Max(0, current_position - ws)

\* a matcher that never reads past current_position (no self-overlap)
MatchedStringNoOverlap(d, current_position, k, n) ==
    PySlice(d, k, Min(k + n, current_position))

\* data[i:current_position] * repetitions + data[i:i+last]
MatchedString(d, current_position, k, n) ==
    LET repetitions == n \div (current_position - k)
        last == n % (current_position - k)
    IN  PyRepeat(PySlice(d, k, current_position), repetitions)
        \o PySlice(d, k, k + last)

\* a scan that also replaces the best match on an equal length
RECURSIVE ScanWindowLastWins(_, _, _, _, _)
ScanWindowLastWins(d, current_position, j, k, best) ==
    IF k >= current_position THEN best
    ELSE LET substring == PySlice(d, current_position, j)
             matched_string == MatchedString(d, current_position, k, Len(substring))
         IN  ScanWindowLastWins(d, current_position, j, k + 1,
                 IF matched_string = substring /\ Len(substring) >= best[2]
                 THEN <<current_position - k, Len(substring)>>
                 ELSE best)

\* for i in range(k, current_position): the best match after trying the
\* window starts k, k+1, ... for the candidate end j
RECURSIVE ScanWindow(_, _, _, _, _)
ScanWindow(d, current_position, j, k, best) ==
    IF k >= current_position THEN best
    ELSE LET substring == PySlice(d, current_position, j)
             matched_string == MatchedString(d, current_position, k, Len(substring))
         IN  ScanWindow(d, current_position, j, k + 1,
                 IF matched_string = substring /\ Len(substring) > best[2]
                 THEN <<current_position - k, Len(substring)>>
                 ELSE best)

\* for j in range(j, end_of_buffer)
RECURSIVE ScanLookahead(_, _, _, _, _, _)
ScanLookahead(d, current_position, ws, j, end_of_buffer, best) ==
    IF j >= end_of_buffer THEN best
    ELSE ScanLookahead(d, current_position, ws, j + 1, end_of_buffer,
             ScanWindow(d, current_position, j,
                        StartIndex(current_position, ws), best))

\* a search that also takes matches of length 1
findLongestMatchFromOne(d, current_position, ws) ==
    LET best == ScanLookahead(d, current_position, ws, current_position + 1,
                              EndOfBuffer(d, current_position), <<-1, -1>>)
    IN  IF best[1] > 0 /\ best[2] > 0 THEN best ELSE NoMatch

\* <<distance, length>> of the match, or NoMatch
findLongestMatch(d, current_position, ws) ==
    LET best == ScanLookahead(d, current_position, ws, current_position + 2,
                              EndOfBuffer(d, current_position), <<-1, -1>>)
    IN  IF best[1] > 0 /\ best[2] > 0 THEN best ELSE NoMatch

\* a match token whose two bytes are written low byte first
MatchBytesLowFirst(distance, length) ==
    <<BitOr(BitAnd(distance, 15) * 16, length), distance \div 16>>

\* the two bytes of a match token: bytes([distance >> 4]) and
\* bytes([((distance & 0xf) << 4) | length])
MatchBytes(distance, length) ==
    <<distance \div 16, BitOr(BitAnd(distance, 15) * 16, length)>>

\* bytes([b]) raises ValueError outside range(256)
IsByte(b) == b >= 0 /\ b <= 255

Literal(p, b) == [flag |-> 0, pos |-> p, byte |-> b, distance |-> 0, length |-> 1]
Match(p, m) == [flag |-> 1, pos |-> p, byte |-> 0, distance |-> m[1], length |-> m[2]]

\* compress_data, one turn of the while loop that finds a match
LZ77EmitMatch ==
    /\ pc = "lz77_compress"
    /\ i < Len(data)
    /\ LET match == findLongestMatch(data, i, window_size)
       IN  /\ match # NoMatch
           /\ LET bs == MatchBytes(match[1], match[2])
              IN  IF IsByte(bs[1]) /\ IsByte(bs[2])
                  THEN /\ output_buffer' =
                            output_buffer \o <<1>> \o ToBits(bs[1], 8) \o ToBits(bs[2], 8)
                       /\ tokens' = Append(tokens, Match(i, match))
                       /\ i' = i + match[2]
                       /\ UNCHANGED <<pc, ret>>
                  ELSE /\ pc' = "raised"
                       /\ ret' = Raise("ValueError")
                       /\ UNCHANGED <<output_buffer, tokens, i>>
    /\ UNCHANGED <<storage, handlers, name, argtype, method, plaintext, channel, compressed, window_size, data, heap, tree>>

\* compress_data, one turn of the while loop that finds no match
LZ77EmitLiteral ==
    /\ pc = "lz77_compress"
    /\ i < Len(data)
    /\ findLongestMatch(data, i, window_size) = NoMatch
    /\ output_buffer' = output_buffer \o <<0>> \o ToBits(data[i + 1], 8)
    /\ tokens' = Append(tokens, Literal(i, data[i + 1]))
    /\ i' = i + 1
    /\ UNCHANGED <<storage, handlers, name, argtype, method, pc, plaintext, channel, compressed, ret, window_size, data,
                   heap, tree>>

\* compress_data, after the loop: fill() and return
LZ77CompressReturn ==
    /\ pc = "lz77_compress"
    /\ i >= Len(data)
    /\ pc' = "lz77_compressed"
    /\ ret' = Ok("bitarray", Fill(output_buffer))
    /\ UNCHANGED <<storage, handlers, name, argtype, method, plaintext, channel, compressed, window_size, data, i,
                   output_buffer, tokens, heap, tree>>

\* decompress called on the bits compress_data returned: output_buffer = [],
\* data = data.copy()
LZ77DecompressBegin ==
    /\ pc = "lz77_compressed"
    /\ pc' = "lz77_decompress"
    /\ channel' = "exact"
    /\ compressed' = ret.val
    /\ data' = ret.val
    /\ output_buffer' = <<>>
    /\ ret' = None
    /\ UNCHANGED <<storage, handlers, name, argtype, method, plaintext, window_size, i, tokens, heap, tree>>

\* for _ in range(length): output_buffer.append(output_buffer[-distance]);
\* <<-1>> is IndexError
RECURSIVE CopyMatch(_, _, _)
CopyMatch(out, distance, length) ==
    IF length = 0 THEN out
    ELSE IF distance > Len(out) \/ Len(out) = 0 THEN <<-1>>
    ELSE CopyMatch(Append(out, IF distance = 0 THEN out[1]
                                ELSE out[Len(out) - distance + 1]),
                   distance, length - 1)

\* decompress, one turn of the while loop whose flag is 0
LZ77DecodeLiteral ==
    /\ pc = "lz77_decompress"
    /\ Len(data) >= 9
    /\ data[1] = 0
    /\ output_buffer' = Append(output_buffer, ToBytes(PySlice(data, 1, 9))[1])
    /\ data' = PySlice(data, 9, Len(data))
    /\ UNCHANGED <<storage, handlers, name, argtype, method, pc, plaintext, channel, compressed, ret, window_size, i,
                   tokens, heap, tree>>

\* decompress, one turn of the while loop whose flag is 1
LZ77DecodeMatch ==
    /\ pc = "lz77_decompress"
    /\ Len(data) >= 9
    /\ data[1] = 1
    /\ LET rest == Tail(data)
           bytes2 == ToBytes(PySlice(rest, 8, 16))
       IN  IF bytes2 = <<>>
           THEN \* ord(b'') raises TypeError
                /\ pc' = "raised"
                /\ ret' = Raise("TypeError")
                /\ UNCHANGED <<data, output_buffer>>
           ELSE LET byte1 == ToBytes(PySlice(rest, 0, 8))[1]
                    byte2 == bytes2[1]
                    distance == BitOr(byte1 * 16, byte2 \div 16)
                    length == BitAnd(byte2, 15)
                    copied == CopyMatch(output_buffer, distance, length)
                IN  IF copied = <<-1>>
                    THEN /\ pc' = "raised"
                         /\ ret' = Raise("IndexError")
                         /\ data' = PySlice(rest, 16, Len(rest))
                         /\ UNCHANGED output_buffer
                    ELSE /\ output_buffer' = copied
                         /\ data' = PySlice(rest, 16, Len(rest))
                         /\ UNCHANGED <<pc, ret>>
    /\ UNCHANGED <<storage, handlers, name, argtype, method, plaintext, channel, compressed, window_size, i, tokens,
                   heap, tree>>

\* decompress, after the loop: b''.join(output_buffer).decode('utf-8')
LZ77DecompressReturn ==
    /\ pc = "lz77_decompress"
    /\ Len(data) < 9
    /\ LET out_data == Utf8Decode(output_buffer)
       IN  IF out_data = <<-1>>
           THEN pc' = "raised" /\ ret' = Raise("UnicodeDecodeError")
           ELSE pc' = "lz77_done" /\ ret' = Ok("str", out_data)
    /\ UNCHANGED <<storage, handlers, name, argtype, method, plaintext, channel, compressed, window_size, data, i,
                   output_buffer, tokens, heap, tree>>

\* the texts and windows the LZ77 coder is run on
LZ77Alphabet == {97, 98, 233}
Texts(alphabet, n) == UNION {[1..k -> alphabet] : k \in 0..n}
Periodic(pattern, n) == [k \in 1..n |-> pattern[((k - 1) % Len(pattern)) + 1]]
LZ77Patterns == UNION {[1..k -> {97, 98}] : k \in 1..MaxPeriod}
LZ77Texts ==
    Texts(LZ77Alphabet, MaxTextLen)
    \cup {Periodic(p, n) : p \in LZ77Patterns, n \in (MaxTextLen + 1)..MaxLongLen}
WindowSizes == (-1..MaxSmallWindow) \cup {DefaultWindowSize, MAX_WINDOW_SIZE, MAX_WINDOW_SIZE + 50}

\* LZ77Compressor(window_size).compress_data(plaintext), up to line 46
InitLZ77 ==
    /\ storage = <<>>
    /\ handlers = <<>>
    /\ name = <<>>
    /\ argtype = "NoneType"
    /\ method = "lz77"
    /\ pc = "lz77_compress"
    /\ plaintext \in LZ77Texts
    /\ channel = "none"
    /\ compressed = <<>>
    /\ ret = None
    /\ \E configured \in WindowSizes : window_size = LZ77WindowSize(configured)
    /\ data = Utf8Encode(plaintext)
    /\ i = 0
    /\ output_buffer = <<>>
    /\ tokens = <<>>
    /\ heap = <<>>
    /\ tree = <<>>

NextLZ77 ==
    \/ LZ77EmitMatch
    \/ LZ77EmitLiteral
    \/ LZ77CompressReturn
    \/ LZ77DecompressBegin
    \/ LZ77DecodeLiteral
    \/ LZ77DecodeMatch
    \/ LZ77DecompressReturn

SpecLZ77 == InitLZ77 /\ [][NextLZ77]_vars

(***************************************************************************)
(* Claims about the LZ77 coder, checked under SpecLZ77.                    *)
(***************************************************************************)
\* compress_data's while loop has ended; output_buffer is not yet filled
LZ77LoopDone == pc = "lz77_compress" /\ i >= Len(data)

IsAscii(text) == \A k \in 1..Len(text) : text[k] < 128

\* the bits of the tokens emitted: 9 per literal, 17 per match
RECURSIVE TokenBits(_)
TokenBits(ts) ==
    IF ts = <<>> THEN 0
    ELSE (IF Head(ts).flag = 0 THEN 9 ELSE 17) + TokenBits(Tail(ts))

\* the bytes the tokens emitted cover
RECURSIVE TokenLengths(_)
TokenLengths(ts) ==
    IF ts = <<>> THEN 0 ELSE Head(ts).length + TokenLengths(Tail(ts))

\* C1: LZ77 round trip. Decompressing the bits compress_data returned gives
\* the text back, for every text and window of the model (the default 20,
\* windows of -1..400 and a configured window above 400); no call raises; and
\* when decompress returns, what it left unread is exactly the 0..7 zero bits
\* that fill() appended: no pad bit is decoded as a token.
C1_LZ77RoundTrip ==
    /\ pc # "raised"
    /\ pc = "lz77_done" =>
         /\ channel = "exact"
         /\ ret = Ok("str", plaintext)
         /\ Len(data) = Len(compressed) - TokenBits(tokens)
         /\ Len(data) <= 7
         /\ \A k \in 1..Len(data) : data[k] = 0

\* C1 witness: a round trip over a self-overlapping match (length > distance)
\* that left pad bits unread
C1_Witness ==
    /\ pc = "lz77_done"
    /\ ret = Ok("str", plaintext)
    /\ Len(data) > 0
    /\ \E k \in 1..Len(tokens) :
         tokens[k].flag = 1 /\ tokens[k].length > tokens[k].distance

\* C2: LZ77 bounds. Every match token emitted at byte position p has
\* 1 <= distance <= min(window_size, p) and 2 <= length <= 15, with
\* window_size at most 400, so distance fits 12 bits and length 4 bits.
C2_LZ77Bounds ==
    /\ window_size <= MAX_WINDOW_SIZE
    /\ \A k \in 1..Len(tokens) :
         tokens[k].flag = 1 =>
           /\ 1 <= tokens[k].distance
           /\ tokens[k].distance <= Min(window_size, tokens[k].pos)
           /\ 2 <= tokens[k].length
           /\ tokens[k].length <= 15
           /\ tokens[k].distance < 4096
           /\ tokens[k].length < 16

\* C2 witness: a match as far back as the window allows, at a position beyond
\* the window, in a text that also has a match of 14 bytes
C2_Witness ==
    /\ LZ77LoopDone
    /\ \E k \in 1..Len(tokens) :
         /\ tokens[k].flag = 1
         /\ tokens[k].distance = window_size
         /\ tokens[k].pos > window_size
    /\ \E k \in 1..Len(tokens) : tokens[k].flag = 1 /\ tokens[k].length >= 14

TenAs == [k \in 1..10 |-> 97]

\* C3 as stated: compress_data("aaaaaaaaaa") emits literals for the first two
\* bytes, then matches of distance 1 whose lengths sum to 8.
C3_TwoLiteralsThenMatches ==
    (LZ77LoopDone /\ plaintext = TenAs /\ window_size = DefaultWindowSize) =>
        /\ Len(tokens) >= 3
        /\ tokens[1].flag = 0
        /\ tokens[2].flag = 0
        /\ \A k \in 3..Len(tokens) : tokens[k].flag = 1 /\ tokens[k].distance = 1
        /\ TokenLengths(SubSeq(tokens, 3, Len(tokens))) = 8

\* C3 amended: with a window of at least 1 (the default 20 included),
\* compress_data("aaaaaaaaaa") emits a literal for the first byte only, then
\* one or more matches of distance 1 whose lengths sum to the remaining 9
\* bytes: at position 1 the self-overlapping match of distance 1 is found.
C3_OneLiteralThenMatches ==
    (LZ77LoopDone /\ plaintext = TenAs /\ window_size >= 1) =>
        /\ Len(tokens) >= 2
        /\ tokens[1].flag = 0
        /\ \A k \in 2..Len(tokens) : tokens[k].flag = 1 /\ tokens[k].distance = 1
        /\ TokenLengths(SubSeq(tokens, 2, Len(tokens))) = 9

\* C3 witness: the ten a's compressed with the default window
C3_Witness ==
    /\ LZ77LoopDone
    /\ plaintext = TenAs
    /\ window_size = DefaultWindowSize
    /\ Len(tokens) = 2
    /\ tokens[2].length = 9

\* no two bytes of the text occur again at a start at most ws positions back
\* (a repeated substring of length >= 2 repeats its first two bytes)
NoRepeatInWindow(text, ws) ==
    \A p \in 1..(Len(text) - 1) : \A q \in 1..(p - 1) :
        p - q <= ws => ~(text[q] = text[p] /\ text[q + 1] = text[p + 1])

\* C4: LZ77 no-repeats. For an ASCII text in which no substring of length >= 2
\* occurs again starting inside the window, compress_data emits len(text)
\* literals and no match: 9 * len(text) bits before fill(), and that many
\* rounded up to a byte when it returns.
C4_LZ77NoRepeats ==
    (method = "lz77" /\ IsAscii(plaintext) /\ NoRepeatInWindow(plaintext, window_size)) =>
        /\ LZ77LoopDone =>
             /\ Len(tokens) = Len(plaintext)
             /\ \A k \in 1..Len(tokens) : tokens[k].flag = 0
             /\ Len(output_buffer) = 9 * Len(plaintext)
        /\ pc = "lz77_compressed" =>
             /\ Len(ret.val) = 8 * ((9 * Len(plaintext) + 7) \div 8)
             /\ \A k \in 1..Len(tokens) : tokens[k].flag = 0

\* C4 witness: a text that repeats a pair of bytes, but only outside the window
C4_Witness ==
    /\ LZ77LoopDone
    /\ IsAscii(plaintext)
    /\ Len(plaintext) >= 5
    /\ NoRepeatInWindow(plaintext, window_size)
    /\ ~NoRepeatInWindow(plaintext, Len(plaintext))

(***************************************************************************)
(* six_bit_compressor.py and seven_bit_compressor.py.                      *)
(***************************************************************************)
\* SixBitCompressor.CHARSET, as code points: a-z, 0-9, then
\* space . , ? ! - _ : ; ' " ( ) [ ] { } @ # $ % ^ & * ~ newline
SixBitCHARSET ==
    <<
       97, 98, 99, 100, 101, 102, 103, 104, 105, 106, 107, 108, 109, 110, 111, 112,
       113, 114, 115, 116, 117, 118, 119, 120, 121, 122, 48, 49, 50, 51, 52, 53,
       54, 55, 56, 57, 32, 46, 44, 63, 33, 45, 95, 58, 59, 39, 34, 40,
       41, 91, 93, 123, 125, 64, 35, 36, 37, 94, 38, 42, 126, 10
    >>

\* SevenBitCompressor.CHARSET, as code points: A-Z, a-z, 0-9, then
\* space . , ? ! - _ ( ) : ; ' " @ # $ % ^ & * + = ~ (c) (R) newline
SevenBitCHARSET ==
    <<
       65, 66, 67, 68, 69, 70, 71, 72, 73, 74, 75, 76, 77, 78, 79, 80,
       81, 82, 83, 84, 85, 86, 87, 88, 89, 90, 97, 98, 99, 100, 101, 102,
       103, 104, 105, 106, 107, 108, 109, 110, 111, 112, 113, 114, 115, 116, 117, 118,
       119, 120, 121, 122, 48, 49, 50, 51, 52, 53, 54, 55, 56, 57, 32, 46,
       44, 63, 33, 45, 95, 40, 41, 58, 59, 39, 34, 64, 35, 36, 37, 94,
       38, 42, 43, 61, 126, 169, 174, 10
    >>

\* char in ENCODE_MAP
InCharset(charset, c) == \E k \in 1..Len(charset) : charset[k] = c

\* ENCODE_MAP[char]: {char: idx for idx, char in enumerate(CHARSET)} keeps the
\* last index of a repeated character
EncodeMap(charset, c) ==
    CHOOSE idx \in 0..(Len(charset) - 1) :
        /\ charset[idx + 1] = c
        /\ \A other \in 0..(Len(charset) - 1) : charset[other + 1] = c => other <= idx

\* str.lower() of one code point below 256
Lower(c) ==
    IF (c >= 65 /\ c <= 90) \/ (c >= 192 /\ c <= 222 /\ c # 215) THEN c + 32 ELSE c

LowerText(text) == [k \in 1..Len(text) |-> Lower(text[k])]

\* a 6-bit coder that looks the character up as given and lower-cases it
\* only to encode it
RECURSIVE SixBitCompressLoopRawLookup(_, _)
SixBitCompressLoopRawLookup(text, ba) ==
    IF text = <<>> THEN Ok("bitarray", ba)
    ELSE LET lower_char == Lower(Head(text))
         IN  IF ~InCharset(SixBitCHARSET, Head(text)) THEN Raise("ValueError")
             ELSE SixBitCompressLoopRawLookup(Tail(text),
                      ba \o Format0b(EncodeMap(SixBitCHARSET, lower_char), 6))

\* SixBitCompressor.compress: the loop over text appending to ba
RECURSIVE SixBitCompressLoop(_, _)
SixBitCompressLoop(text, ba) ==
    IF text = <<>> THEN Ok("bitarray", ba)
    ELSE LET lower_char == Lower(Head(text))
         IN  IF ~InCharset(SixBitCHARSET, lower_char) THEN Raise("ValueError")
             ELSE SixBitCompressLoop(Tail(text),
                      ba \o Format0b(EncodeMap(SixBitCHARSET, lower_char), 6))

\* a 6-bit coder that does not fold case
RECURSIVE SixBitCompressNoLower(_)
SixBitCompressNoLower(text) ==
    IF text = <<>> THEN Ok("bitarray", <<>>)
    ELSE IF ~InCharset(SixBitCHARSET, Head(text)) THEN Raise("ValueError")
    ELSE LET rest == SixBitCompressNoLower(Tail(text))
         IN  IF ~rest.ok THEN rest
             ELSE Ok("bitarray",
                     Format0b(EncodeMap(SixBitCHARSET, Head(text)), 6) \o rest.val)

SixBitCompress(text) == SixBitCompressLoop(text, <<>>)

\* a 6-bit decoder that returns the text decoded before an invalid code
RECURSIVE SixBitDecompressLoopBestEffort(_, _, _)
SixBitDecompressLoopBestEffort(bits, k, text) ==
    IF k >= Len(bits) THEN Ok("str", text)
    ELSE LET char_code == FromBits(PySlice(bits, k, k + 6))
         IN  IF char_code >= Len(SixBitCHARSET) THEN Ok("str", text)
             ELSE SixBitDecompressLoopBestEffort(bits, k + 6,
                      Append(text, SixBitCHARSET[char_code + 1]))

\* SixBitCompressor.decompress: for i in range(k, len(compressed), 6)
RECURSIVE SixBitDecompressLoop(_, _, _)
SixBitDecompressLoop(bits, k, text) ==
    IF k >= Len(bits) THEN Ok("str", text)
    ELSE LET char_code == FromBits(PySlice(bits, k, k + 6))
         IN  IF char_code >= Len(SixBitCHARSET) THEN Raise("ValueError")
             ELSE SixBitDecompressLoop(bits, k + 6,
                      Append(text, SixBitCHARSET[char_code + 1]))

SixBitDecompress(bits) == SixBitDecompressLoop(bits, 0, <<>>)

\* a 7-bit coder that returns the bits of the characters before the first
\* unsupported one
RECURSIVE SevenBitCompressLoopBestEffort(_, _)
SevenBitCompressLoopBestEffort(text, ba) ==
    IF text = <<>> THEN Ok("bitarray", ba)
    ELSE LET char == Head(text)
         IN  IF ~InCharset(SevenBitCHARSET, char) THEN Ok("bitarray", ba)
             ELSE SevenBitCompressLoopBestEffort(Tail(text),
                      ba \o Format0b(EncodeMap(SevenBitCHARSET, char), 7))

\* SevenBitCompressor.compress: the loop over text appending to ba
RECURSIVE SevenBitCompressLoop(_, _)
SevenBitCompressLoop(text, ba) ==
    IF text = <<>> THEN Ok("bitarray", ba)
    ELSE LET char == Head(text)
         IN  IF ~InCharset(SevenBitCHARSET, char) THEN Raise("ValueError")
             ELSE SevenBitCompressLoop(Tail(text),
                      ba \o Format0b(EncodeMap(SevenBitCHARSET, char), 7))

\* a 7-bit coder that folds case as the 6-bit coder does
RECURSIVE SevenBitCompressLower(_)
SevenBitCompressLower(text) ==
    IF text = <<>> THEN Ok("bitarray", <<>>)
    ELSE IF ~InCharset(SevenBitCHARSET, Lower(Head(text))) THEN Raise("ValueError")
    ELSE LET rest == SevenBitCompressLower(Tail(text))
         IN  IF ~rest.ok THEN rest
             ELSE Ok("bitarray",
                     Format0b(EncodeMap(SevenBitCHARSET, Lower(Head(text))), 7)
                     \o rest.val)

SevenBitCompress(text) == SevenBitCompressLoop(text, <<>>)

\* SevenBitCompressor.decompress: for i in range(k, len(compressed), 7)
RECURSIVE SevenBitDecompressLoop(_, _, _)
SevenBitDecompressLoop(bits, k, text) ==
    IF k >= Len(bits) THEN Ok("str", text)
    ELSE LET char_code == FromBits(PySlice(bits, k, k + 7))
         IN  IF char_code >= Len(SevenBitCHARSET) THEN Raise("ValueError")
             ELSE SevenBitDecompressLoop(bits, k + 7,
                      Append(text, SevenBitCHARSET[char_code + 1]))

SevenBitDecompress(bits) == SevenBitDecompressLoop(bits, 0, <<>>)

\* the width of a method's codes: format(..., "06b") and "07b"
Width(m) == IF m = "six_bit" THEN 6 ELSE 7

\* SixBitCompressor().compress(plaintext)
SixBitCompressCall ==
    /\ pc = "fixed_start"
    /\ method = "six_bit"
    /\ ret' = SixBitCompress(plaintext)
    /\ pc' = IF ret'.ok THEN "fixed_compressed" ELSE "fixed_raised"
    /\ UNCHANGED <<storage, handlers, name, argtype, method, plaintext, channel, compressed, window_size, data, i,
                   output_buffer, tokens, heap, tree>>

\* SevenBitCompressor().compress(plaintext)
SevenBitCompressCall ==
    /\ pc = "fixed_start"
    /\ method = "seven_bit"
    /\ ret' = SevenBitCompress(plaintext)
    /\ pc' = IF ret'.ok THEN "fixed_compressed" ELSE "fixed_raised"
    /\ UNCHANGED <<storage, handlers, name, argtype, method, plaintext, channel, compressed, window_size, data, i,
                   output_buffer, tokens, heap, tree>>

\* the caller hands decompress exactly the bits compress returned
FixedDeliverExact ==
    /\ pc = "fixed_compressed"
    /\ pc' = "fixed_received"
    /\ channel' = "exact"
    /\ compressed' = ret.val
    /\ ret' = None
    /\ UNCHANGED <<storage, handlers, name, argtype, method, plaintext, window_size, data, i, output_buffer, tokens,
                   heap, tree>>

\* the caller hands decompress the bits compress returned, cut short
FixedDeliverTruncated ==
    /\ pc = "fixed_compressed"
    /\ \E dropped \in 1..MaxDropped :
         /\ dropped <= Len(ret.val)
         /\ compressed' = PySlice(ret.val, 0, Len(ret.val) - dropped)
    /\ pc' = "fixed_received"
    /\ channel' = "truncated"
    /\ ret' = None
    /\ UNCHANGED <<storage, handlers, name, argtype, method, plaintext, window_size, data, i, output_buffer, tokens,
                   heap, tree>>

(***************************************************************************)
(* Encryptor of encryption.py, as text_to_bits and bits_to_text of         *)
(* server.py use it between compress and decompress. AES itself is the     *)
(* Crypto library's: EAX and OFB are stream modes, ciphertext = message    *)
(* XOR a keystream derived from the key and the nonce or iv.               *)
(***************************************************************************)
\* a ^ b on non-negative integers
RECURSIVE BitXor(_, _)
BitXor(a, b) ==
    IF a = 0 THEN b
    ELSE IF b = 0 THEN a
    ELSE ((a + b) % 2) + 2 * BitXor(a \div 2, b \div 2)

\* bytes2bits: [int(bit) for byte in data for bit in f"{byte:08b}"]
RECURSIVE bytes2bits(_)
bytes2bits(bytes) ==
    IF bytes = <<>> THEN <<>> ELSE Format0b(Head(bytes), 8) \o bytes2bits(Tail(bytes))

\* bits2bytes: sum(b << (7 - j)) over each chunk of up to 8 bits
RECURSIVE bits2bytes(_)
bits2bytes(bits) ==
    IF bits = <<>> THEN <<>>
    ELSE LET byte_chunk == PySlice(bits, 0, 8)
         IN  <<FromBits(byte_chunk) * 2 ^ (8 - Len(byte_chunk))>>
             \o bits2bytes(PySlice(bits, 8, Len(bits)))

\* the AES block: nonce, tag and iv are 16 bytes
BlockBytes == 16

\* the keystream the cipher derives from the key and the nonce or iv; here
\* the nonce repeated, what matters being that encrypt and decrypt derive
\* the same one from the same nonce
Keystream(nonce, n) == [j \in 1..n |-> nonce[((j - 1) % BlockBytes) + 1]]

\* cipher.encrypt / cipher.decrypt of a stream mode
StreamCipher(bytes, nonce) ==
    [j \in 1..Len(bytes) |-> BitXor(bytes[j], Keystream(nonce, Len(bytes))[j])]

\* the 16-byte tag of encrypt_and_digest; here the XOR of the ciphertext's
\* bytes and the nonce's, what matters being that it is a function of both
EaxTag(ciphertext, nonce) ==
    LET RECURSIVE XorAll(_)
        XorAll(bytes) ==
            IF bytes = <<>> THEN 0 ELSE BitXor(Head(bytes), XorAll(Tail(bytes)))
    IN  [j \in 1..BlockBytes |-> BitXor(XorAll(ciphertext), nonce[j])]

\* Encryptor(mode, key, key_length, iv).encrypt(message); nonce is
\* cipher.nonce in mode EAX and self.iv in mode OFB
Encrypt(mode, message, nonce) ==
    LET message_bytes == ToBytes(message)
        ciphertext == StreamCipher(message_bytes, nonce)
    IN  IF mode = "EAX"
        THEN Ok("list", bytes2bits(nonce) \o bytes2bits(EaxTag(ciphertext, nonce))
                        \o bytes2bits(ciphertext))
        ELSE IF mode = "OFB"
        THEN IF nonce = <<>> THEN Raise("ValueError")
             ELSE Ok("list", bytes2bits(nonce) \o bytes2bits(ciphertext))
        ELSE Raise("ValueError")

\* Encryptor(mode, key, key_length).decrypt(ciphermessage)
Decrypt(mode, ciphermessage) ==
    LET cipher_bytes == bits2bytes(ciphermessage)
    IN  IF mode = "EAX"
        THEN LET nonce == PySlice(cipher_bytes, 0, 16)
                 tag == PySlice(cipher_bytes, 16, 32)
                 ciphertext == PySlice(cipher_bytes, 32, Len(cipher_bytes))
             IN  IF tag # EaxTag(ciphertext, nonce) THEN Raise("ValueError")
                 ELSE Ok("bitarray", FromBytes(StreamCipher(ciphertext, nonce)))
        ELSE IF mode = "OFB"
        THEN LET iv == PySlice(cipher_bytes, 0, 16)
                 ciphertext == PySlice(cipher_bytes, 16, Len(cipher_bytes))
             IN  Ok("bitarray", FromBytes(StreamCipher(ciphertext, iv)))
        ELSE Raise("ValueError")

\* config["encryption"]["cipher_mode"]
CipherModes == {"EAX", "OFB"}

\* the nonces and ivs: all zero, all 0xA5, and DEFAULT_IV = b"initialvector123"
Nonces ==
    {[j \in 1..BlockBytes |-> 0], [j \in 1..BlockBytes |-> 165],
     <<105, 110, 105, 116, 105, 97, 108, 118, 101, 99, 116, 111, 114, 49, 50, 51>>}

\* the bits compress returned go through encryptor.encrypt (text_to_bits)
\* and encryptor.decrypt (bits_to_text) on their way to decompress
FixedDeliverEncrypted ==
    /\ pc = "fixed_compressed"
    /\ \E mode \in CipherModes, nonce \in Nonces :
         LET encrypted_bits == Encrypt(mode, ret.val, nonce)
             decrypted_bits == Decrypt(mode, encrypted_bits.val)
         IN  IF encrypted_bits.ok /\ decrypted_bits.ok
             THEN /\ compressed' = decrypted_bits.val
                  /\ channel' = "encrypted"
                  /\ pc' = "fixed_received"
                  /\ ret' = None
             ELSE /\ pc' = "fixed_raised"
                  /\ ret' = IF encrypted_bits.ok THEN decrypted_bits ELSE encrypted_bits
                  /\ UNCHANGED <<compressed, channel>>
    /\ UNCHANGED <<storage, handlers, name, argtype, method, plaintext, window_size, data, i,
                   output_buffer, tokens, heap, tree>>

\* SixBitCompressor().decompress(compressed)
SixBitDecompressCall ==
    /\ pc = "fixed_received"
    /\ method = "six_bit"
    /\ ret' = SixBitDecompress(compressed)
    /\ pc' = "fixed_done"
    /\ UNCHANGED <<storage, handlers, name, argtype, method, plaintext, channel, compressed, window_size, data, i,
                   output_buffer, tokens, heap, tree>>

\* SevenBitCompressor().decompress(compressed)
SevenBitDecompressCall ==
    /\ pc = "fixed_received"
    /\ method = "seven_bit"
    /\ ret' = SevenBitDecompress(compressed)
    /\ pc' = "fixed_done"
    /\ UNCHANGED <<storage, handlers, name, argtype, method, plaintext, channel, compressed, window_size, data, i,
                   output_buffer, tokens, heap, tree>>

\* the characters the fixed-width coders are run on: both charsets, the
\* upper-case letters, and e-acute, A-grave, [ and + from outside one or both
RECURSIVE Range(_)
Range(seq) == IF seq = <<>> THEN {} ELSE {Head(seq)} \cup Range(Tail(seq))
FixedChars == Range(SixBitCHARSET) \cup Range(SevenBitCHARSET) \cup {233, 192}
\* A a z Z newline + [ (c) e-acute
FixedSample == {65, 97, 122, 90, 10, 43, 91, 169, 233}
\* "HELLO" and "hello"
Hello == <<72, 69, 76, 76, 79>>
HelloLower == <<104, 101, 108, 108, 111>>
\* the last set: "Ba1Ba1Ba..." cut to every length above MaxFixedLen up to
\* MaxRunLen
FixedTexts ==
    Texts(FixedSample, MaxFixedLen) \cup {<<c>> : c \in FixedChars}
    \cup {Hello, HelloLower}
    \cup {Periodic(<<66, 97, 49>>, n) : n \in (MaxFixedLen + 1)..MaxRunLen}
BitStrings(n) == UNION {[1..k -> {0, 1}] : k \in 0..n}

\* the code values put into streams of whole chunks: the first codes, the
\* last code of each charset and the values just above it
ChunkCodes(m) == {c \in {0, 1, 61, 62, 63, 87, 88, 127} : c < 2 ^ Width(m)}

\* the bits of a sequence of code values, w bits each
RECURSIVE ChunksBits(_, _)
ChunksBits(codes, w) ==
    IF codes = <<>> THEN <<>> ELSE ToBits(Head(codes), w) \o ChunksBits(Tail(codes), w)

\* the streams of 1..MaxChunks whole chunks over ChunkCodes
ChunkStreams(m) ==
    {ChunksBits(codes, Width(m)) :
        codes \in UNION {[1..n -> ChunkCodes(m)] : n \in 1..MaxChunks}}

\* a compress call on a text, or a decompress call on any bit stream
InitFixed ==
    /\ storage = <<>>
    /\ handlers = <<>>
    /\ name = <<>>
    /\ argtype = "NoneType"
    /\ method \in {"six_bit", "seven_bit"}
    /\ \/ /\ pc = "fixed_start"
          /\ plaintext \in FixedTexts
          /\ channel = "none"
          /\ compressed = <<>>
       \/ /\ pc = "fixed_received"
          /\ plaintext = <<>>
          /\ channel = "external"
          /\ compressed \in BitStrings(MaxStreamBits) \cup ChunkStreams(method)
    /\ ret = None
    /\ window_size = 0
    /\ data = <<>>
    /\ i = 0
    /\ output_buffer = <<>>
    /\ tokens = <<>>
    /\ heap = <<>>
    /\ tree = <<>>

NextFixed ==
    \/ SixBitCompressCall
    \/ SevenBitCompressCall
    \/ FixedDeliverExact
    \/ FixedDeliverTruncated
    \/ FixedDeliverEncrypted
    \/ SixBitDecompressCall
    \/ SevenBitDecompressCall

SpecFixed == InitFixed /\ [][NextFixed]_vars

\* every character of the text, as given, is in the charset
AllInCharset(charset, text) == \A k \in 1..Len(text) : InCharset(charset, text[k])

\* C5: seven-bit round trip. For a text of CHARSET characters, compress
\* succeeds with 7 * len(text) bits, and decompress of exactly those bits
\* returns the text, case preserved.
C5_SevenBitRoundTrip ==
    (method = "seven_bit" /\ AllInCharset(SevenBitCHARSET, plaintext)) =>
        /\ pc # "fixed_raised"
        /\ pc = "fixed_compressed" => Len(ret.val) = 7 * Len(plaintext)
        /\ (pc = "fixed_done" /\ channel = "exact") => ret = Ok("str", plaintext)

\* C5 witness: a mixed-case text with a non-ASCII charset symbol, round-tripped
C5_Witness ==
    /\ method = "seven_bit"
    /\ pc = "fixed_done"
    /\ channel = "exact"
    /\ Len(plaintext) >= 3
    /\ \E k \in 1..Len(plaintext) : plaintext[k] = 65
    /\ \E k \in 1..Len(plaintext) : plaintext[k] = 97
    /\ \E k \in 1..Len(plaintext) : plaintext[k] = 169
    /\ ret = Ok("str", plaintext)

\* C6: six-bit round trip, lossy only in case. For a text whose lower-cased
\* characters are in CHARSET, compress succeeds with 6 * len(text) bits, and
\* decompress of exactly those bits returns text.lower().
C6_SixBitRoundTripLower ==
    (method = "six_bit" /\ AllInCharset(SixBitCHARSET, LowerText(plaintext))) =>
        /\ pc # "fixed_raised"
        /\ pc = "fixed_compressed" => Len(ret.val) = 6 * Len(plaintext)
        /\ (pc = "fixed_done" /\ channel = "exact") =>
               ret = Ok("str", LowerText(plaintext))

\* C6 witness: a text with upper-case letters comes back lower-cased
C6_Witness ==
    /\ method = "six_bit"
    /\ pc = "fixed_done"
    /\ channel = "exact"
    /\ Len(plaintext) >= 3
    /\ \E k \in 1..Len(plaintext) : plaintext[k] = 65
    /\ \E k \in 1..Len(plaintext) : plaintext[k] = 91
    /\ ret = Ok("str", LowerText(plaintext))
    /\ ret.val # plaintext

\* C8 as stated: decompress of a stream whose length is not a multiple of the
\* width raises; the partial chunk never becomes a symbol.
C8_TruncationDetected ==
    (pc = "fixed_done" /\ Len(compressed) % Width(method) # 0) => ~ret.ok

(***************************************************************************)
(* huffman.py: HuffmanCompressor, on Python's heapq.  A node of the heap   *)
(* is the list [weight, [char, code], [char, code], ...]; codes are        *)
(* strings of '0' and '1', here sequences of 0 and 1.                      *)
(***************************************************************************)
\* a < b on strings of '0'/'1' (or on single characters, as code points)
RECURSIVE StrLess(_, _)
StrLess(a, b) ==
    IF b = <<>> THEN FALSE
    ELSE IF a = <<>> THEN TRUE
    ELSE IF Head(a) # Head(b) THEN Head(a) < Head(b)
    ELSE StrLess(Tail(a), Tail(b))

\* a < b on the lists [char, code]
PairLess(a, b) ==
    IF a[1] # b[1] THEN a[1] < b[1] ELSE StrLess(a[2], b[2])

\* a < b on lists of [char, code] lists
RECURSIVE PairsLess(_, _)
PairsLess(a, b) ==
    IF b = <<>> THEN FALSE
    ELSE IF a = <<>> THEN TRUE
    ELSE IF Head(a) # Head(b) THEN PairLess(Head(a), Head(b))
    ELSE PairsLess(Tail(a), Tail(b))

\* a < b on heap nodes: Python compares the lists element by element
NodeLess(a, b) ==
    IF a.weight # b.weight THEN a.weight < b.weight ELSE PairsLess(a.pairs, b.pairs)

HeapGet(h, pos) == h[pos + 1]
HeapSet(h, pos, item) == [h EXCEPT ![pos + 1] = item]

\* heapq._siftdown's while loop
RECURSIVE SiftDownLoop(_, _, _, _)
SiftDownLoop(h, startpos, pos, newitem) ==
    IF pos > startpos
    THEN LET parentpos == (pos - 1) \div 2
             parent == HeapGet(h, parentpos)
         IN  IF NodeLess(newitem, parent)
             THEN SiftDownLoop(HeapSet(h, pos, parent), startpos, parentpos, newitem)
             ELSE HeapSet(h, pos, newitem)
    ELSE HeapSet(h, pos, newitem)

siftdown(h, startpos, pos) == SiftDownLoop(h, startpos, pos, HeapGet(h, pos))

\* heapq._siftup's while loop, then its _siftdown
RECURSIVE SiftUpLoop(_, _, _, _)
SiftUpLoop(h, startpos, pos, newitem) ==
    LET endpos == Len(h)
        childpos == 2 * pos + 1
        rightpos == childpos + 1
    IN  IF childpos < endpos
        THEN LET smaller ==
                     IF rightpos < endpos
                        /\ ~NodeLess(HeapGet(h, childpos), HeapGet(h, rightpos))
                     THEN rightpos ELSE childpos
             IN  SiftUpLoop(HeapSet(h, pos, HeapGet(h, smaller)), startpos, smaller,
                            newitem)
        ELSE siftdown(HeapSet(h, pos, newitem), startpos, pos)

siftup(h, pos) == SiftUpLoop(h, pos, pos, HeapGet(h, pos))

\* heapq.heappush: the heap after the push
heappush(h, item) == siftdown(Append(h, item), 0, Len(h))

\* heapq.heappop of a non-empty list: <<the item returned, the heap left>>.
\* It returns heap[0], whatever the order of the list.
heappop(h) ==
    LET lastelt == h[Len(h)]
        rest == SubSeq(h, 1, Len(h) - 1)
    IN  IF rest # <<>>
        THEN <<rest[1], siftup(HeapSet(rest, 0, lastelt), 0)>>
        ELSE <<lastelt, <<>>>>

\* the keys of Counter(text), in order of first appearance
RECURSIVE FirstSeen(_, _)
FirstSeen(text, seen) ==
    IF text = <<>> THEN seen
    ELSE FirstSeen(Tail(text),
                   IF \E k \in 1..Len(seen) : seen[k] = Head(text)
                   THEN seen ELSE Append(seen, Head(text)))

Count(text, c) == Cardinality({k \in 1..Len(text) : text[k] = c})

\* freq = Counter(text), then freq[char] += 1 for every char of text
Freq(text, c) == Count(text, c) + Count(text, c)

\* heap = [[weight, [char, ""]] for char, weight in freq.items()]
InitialHeap(text) ==
    LET keys == FirstSeen(text, <<>>)
    IN  [k \in 1..Len(keys) |->
            [weight |-> Freq(text, keys[k]), pairs |-> <<<<keys[k], <<>>>>>>]]

\* a merge that puts the bit after the code: pair[1] = pair[1] + bit
PrefixedAtEnd(pairs, bit) ==
    [k \in 1..Len(pairs) |-> <<pairs[k][1], pairs[k][2] \o <<bit>>>>]

\* pair[1] = bit + pair[1] for every pair of a node
Prefixed(pairs, bit) == [k \in 1..Len(pairs) |-> <<pairs[k][1], <<bit>> \o pairs[k][2]>>]

\* one turn of build_tree's while loop: <<low, high, the heap after the push>>
MergeStep(h) ==
    LET first == heappop(h)
        second == heappop(first[2])
        low == first[1]
        high == second[1]
    IN  <<low, high,
          heappush(second[2],
                   [weight |-> low.weight + high.weight,
                    pairs |-> Prefixed(low.pairs, 0) \o Prefixed(high.pairs, 1)])>>

\* tree[char]
Code(t, c) == t[CHOOSE k \in 1..Len(t) : t[k][1] = c][2]
HasCode(t, c) == \E k \in 1..Len(t) : t[k][1] = c

\* bitarray.encode(tree, text): ValueError for an empty dict, a symbol
\* without a code, or an empty code
RECURSIVE BitarrayEncode(_, _, _)
BitarrayEncode(t, text, bits) ==
    IF t = <<>> THEN Raise("ValueError")
    ELSE IF text = <<>> THEN Ok("bitarray", bits)
    ELSE IF ~HasCode(t, Head(text)) THEN Raise("ValueError")
    ELSE IF Code(t, Head(text)) = <<>> THEN Raise("ValueError")
    ELSE BitarrayEncode(t, Tail(text), bits \o Code(t, Head(text)))

\* a decompress that does not empty its buffer after a symbol
RECURSIVE HuffmanDecompressLoopKeepBuffer(_, _, _, _)
HuffmanDecompressLoopKeepBuffer(bits, t, buffer, decoded) ==
    IF bits = <<>> THEN Ok("str", decoded)
    ELSE LET buffer2 == Append(buffer, Head(bits))
             hits == {k \in 1..Len(t) : t[k][2] = buffer2}
         IN  IF hits # {}
             THEN HuffmanDecompressLoopKeepBuffer(Tail(bits), t, buffer2,
                      Append(decoded, t[CHOOSE k \in hits : \A o \in hits : o <= k][1]))
             ELSE HuffmanDecompressLoopKeepBuffer(Tail(bits), t, buffer2, decoded)

\* HuffmanCompressor.decompress(compressed, tree): the loop over the bits
RECURSIVE HuffmanDecompressLoop(_, _, _, _)
HuffmanDecompressLoop(bits, t, buffer, decoded) ==
    IF bits = <<>> THEN Ok("str", decoded)
    ELSE LET buffer2 == Append(buffer, Head(bits))
             hits == {k \in 1..Len(t) : t[k][2] = buffer2}
         IN  IF hits # {}
             \* reverse_tree keeps the last symbol of a repeated code
             THEN HuffmanDecompressLoop(Tail(bits), t, <<>>,
                      Append(decoded, t[CHOOSE k \in hits : \A o \in hits : o <= k][1]))
             ELSE HuffmanDecompressLoop(Tail(bits), t, buffer2, decoded)

\* decompress's local buffer when its for loop has ended: the bits read
\* since the last symbol was decoded
RECURSIVE HuffmanFinalBuffer(_, _, _)
HuffmanFinalBuffer(bits, t, buffer) ==
    IF bits = <<>> THEN buffer
    ELSE LET buffer2 == Append(buffer, Head(bits))
         IN  IF \E k \in 1..Len(t) : t[k][2] = buffer2
             THEN HuffmanFinalBuffer(Tail(bits), t, <<>>)
             ELSE HuffmanFinalBuffer(Tail(bits), t, buffer2)

\* a decompress whose tree parameter defaults to an empty table
HuffmanDecompressDefaultTree(args) ==
    IF Len(args) = 1 THEN HuffmanDecompressLoop(args[1], <<>>, <<>>, <<>>)
    ELSE IF Len(args) # 2 THEN Raise("TypeError")
    ELSE HuffmanDecompressLoop(args[1], args[2], <<>>, <<>>)

\* a call of HuffmanCompressor().decompress with the positional arguments
\* args: the method takes (compressed, tree), and Python raises TypeError
\* for a missing argument
HuffmanDecompress(args) ==
    IF Len(args) # 2 THEN Raise("TypeError")
    ELSE HuffmanDecompressLoop(args[1], args[2], <<>>, <<>>)

\* Compressor.decompress, method 'huffman': HuffmanCompressor().decompress(compressed)
CompressorDecompressHuffman(bits) == HuffmanDecompress(<<bits>>)

\* build_tree: one turn of the while loop
HuffmanMerge ==
    /\ pc = "huffman_build"
    /\ Len(heap) > 1
    /\ heap' = MergeStep(heap)[3]
    /\ UNCHANGED <<storage, handlers, name, argtype, method, pc, plaintext, channel, compressed, ret, window_size, data,
                   i, output_buffer, tokens, tree>>

\* build_tree after the loop: tree = dict(heappop(heap)[1:]), and back in
\* compress: compressed.encode(tree, text); return compressed
HuffmanCompressReturn ==
    /\ pc = "huffman_build"
    /\ Len(heap) <= 1
    /\ IF heap = <<>>
       THEN \* heappop of an empty list
            /\ pc' = "huffman_raised"
            /\ ret' = Raise("IndexError")
            /\ UNCHANGED <<heap, tree>>
       ELSE /\ heap' = heappop(heap)[2]
            /\ tree' = heappop(heap)[1].pairs
            /\ ret' = BitarrayEncode(tree', plaintext, <<>>)
            /\ pc' = IF ret'.ok THEN "huffman_compressed" ELSE "huffman_raised"
    /\ UNCHANGED <<storage, handlers, name, argtype, method, plaintext, channel, compressed, window_size, data, i,
                   output_buffer, tokens>>

\* Compressor('huffman').decompress on the bits its compress returned
HuffmanFacadeDecompress ==
    /\ pc = "huffman_compressed"
    /\ channel' = "exact"
    /\ compressed' = ret.val
    /\ ret' = CompressorDecompressHuffman(compressed')
    /\ pc' = "huffman_facade_done"
    /\ UNCHANGED <<storage, handlers, name, argtype, method, plaintext, window_size, data, i, output_buffer, tokens,
                   heap, tree>>

\* Compressor('huffman').decompress on a bit stream from outside
HuffmanFacadeDecompressExternal ==
    /\ pc = "huffman_received"
    /\ ret' = CompressorDecompressHuffman(compressed)
    /\ pc' = "huffman_facade_done"
    /\ UNCHANGED <<storage, handlers, name, argtype, method, plaintext, channel, compressed, window_size, data, i,
                   output_buffer, tokens, heap, tree>>

\* the __main__ example: decompress(compressed, tree) with the tree of
\* build_tree(text)
HuffmanDecompressWithTree ==
    /\ pc = "huffman_compressed"
    /\ channel' = "exact"
    /\ compressed' = ret.val
    /\ ret' = HuffmanDecompress(<<compressed', tree>>)
    /\ pc' = "huffman_done"
    /\ UNCHANGED <<storage, handlers, name, argtype, method, plaintext, window_size, data, i, output_buffer, tokens,
                   heap, tree>>

\* decompress(compressed, tree) with the tree of build_tree(text), on the
\* bits compress returned less their last 1..MaxDropped bits
HuffmanDecompressTruncatedWithTree ==
    /\ pc = "huffman_compressed"
    /\ \E dropped \in 1..MaxDropped :
         /\ dropped <= Len(ret.val)
         /\ compressed' = PySlice(ret.val, 0, Len(ret.val) - dropped)
    /\ channel' = "truncated"
    /\ ret' = HuffmanDecompress(<<compressed', tree>>)
    /\ pc' = "huffman_done"
    /\ UNCHANGED <<storage, handlers, name, argtype, method, plaintext, window_size, data, i, output_buffer, tokens,
                   heap, tree>>

\* text = "aaaaabbc"
HuffmanExample == <<97, 97, 97, 97, 97, 98, 98, 99>>
HuffmanAlphabet == {97, 98, 99}
HuffmanTexts == Texts(HuffmanAlphabet, MaxHuffmanLen) \cup {HuffmanExample}

\* compress(plaintext) up to line 11 of build_tree, or a decompress call on a
\* bit stream from outside
InitHuffman ==
    /\ storage = <<>>
    /\ handlers = <<>>
    /\ name = <<>>
    /\ argtype = "NoneType"
    /\ method = "huffman"
    /\ \/ /\ pc = "huffman_build"
          /\ plaintext \in HuffmanTexts
          /\ channel = "none"
          /\ compressed = <<>>
       \/ /\ pc = "huffman_received"
          /\ plaintext = <<>>
          /\ channel = "external"
          /\ compressed \in BitStrings(MaxStreamBits)
    /\ heap = InitialHeap(plaintext)
    /\ ret = None
    /\ window_size = 0
    /\ data = <<>>
    /\ i = 0
    /\ output_buffer = <<>>
    /\ tokens = <<>>
    /\ tree = <<>>

NextHuffman ==
    \/ HuffmanMerge
    \/ HuffmanCompressReturn
    \/ HuffmanFacadeDecompress
    \/ HuffmanFacadeDecompressExternal
    \/ HuffmanDecompressWithTree
    \/ HuffmanDecompressTruncatedWithTree

SpecHuffman == InitHuffman /\ [][NextHuffman]_vars

\* C7 as stated: in build_tree("aaaaabbc") the code of 'a' (frequency 5) is
\* no longer than the code of 'b' (frequency 2) or of 'c' (frequency 1).
C7_FrequentSymbolShortestCode ==
    (pc = "huffman_compressed" /\ plaintext = HuffmanExample) =>
        /\ Len(Code(tree, 97)) <= Len(Code(tree, 98))
        /\ Len(Code(tree, 97)) <= Len(Code(tree, 99))

\* C9 as stated: compress of method 'huffman' returns the pair (bits, tree).
C9_CompressReturnsBitsAndTree ==
    pc = "huffman_compressed" => ret.type = "tuple"

\* C10: facade Huffman decode without a tree. Compressor('huffman')
\* .decompress(bits) raises for every bitarray, the exact output of its own
\* compress included; it never returns text.
C10_FacadeHuffmanDecompressFails ==
    pc = "huffman_facade_done" => (~ret.ok /\ ret.type # "str" /\ ret.err = "TypeError")

\* C10 witness: the facade's decompress has raised on the output of its own
\* compress for a text of three distinct symbols
C10_Witness ==
    /\ pc = "huffman_facade_done"
    /\ channel = "exact"
    /\ Len(tree) = 3
    /\ Len(compressed) >= 4
    /\ ~ret.ok

\* C10 witness of the other case: the facade's decompress has raised on a
\* stream from outside
C10_ExternalReached ==
    pc = "huffman_facade_done" /\ channel = "external" /\ Len(compressed) >= 4 /\ ~ret.ok

\* C11 as stated: for a non-empty text of one distinct symbol, build_tree
\* gives that symbol a code of exactly one bit, and compress emits len(text)
\* bits.
C11_SingleSymbolOneBitCode ==
    (/\ pc \in {"huffman_compressed", "huffman_raised"}
     /\ plaintext # <<>>
     /\ \A k \in 1..Len(plaintext) : plaintext[k] = plaintext[1]) =>
        /\ Len(Code(tree, plaintext[1])) = 1
        /\ ret.ok
        /\ Len(ret.val) = Len(plaintext)

(***************************************************************************)
(* LZ77 decompress on a stream that was cut short, SpecLZ77Cut.            *)
(***************************************************************************)
\* longest text whose compressed stream is cut at every length
MaxCutTextLen == 4

\* decompress(compressed) where compressed is the first n bits of what
\* compress_data returned
LZ77DecompressBeginTruncated ==
    /\ pc = "lz77_compressed"
    /\ \E n \in 0..(Len(ret.val) - 1) : compressed' = PySlice(ret.val, 0, n)
    /\ pc' = "lz77_decompress"
    /\ channel' = "truncated"
    /\ data' = compressed'
    /\ output_buffer' = <<>>
    /\ ret' = None
    /\ UNCHANGED <<storage, handlers, name, argtype, method, plaintext, window_size, i, tokens, heap, tree>>

CutTexts == Texts({97, 98}, MaxCutTextLen)

\* LZ77Compressor().compress_data(plaintext), up to line 46
InitLZ77Cut ==
    /\ storage = <<>>
    /\ handlers = <<>>
    /\ name = <<>>
    /\ argtype = "NoneType"
    /\ method = "lz77"
    /\ pc = "lz77_compress"
    /\ plaintext \in CutTexts
    /\ channel = "none"
    /\ compressed = <<>>
    /\ ret = None
    /\ window_size = LZ77WindowSize(DefaultWindowSize)
    /\ data = Utf8Encode(plaintext)
    /\ i = 0
    /\ output_buffer = <<>>
    /\ tokens = <<>>
    /\ heap = <<>>
    /\ tree = <<>>

NextLZ77Cut ==
    \/ NextLZ77
    \/ LZ77DecompressBeginTruncated

SpecLZ77Cut == InitLZ77Cut /\ [][NextLZ77Cut]_vars

\* the bit offsets at which a token of the stream ends
TokenBoundaries(ts) == {TokenBits(SubSeq(ts, 1, k)) : k \in 0..Len(ts)}

\* the stream given to decompress ends inside a token
EndsInsideToken ==
    /\ channel = "truncated"
    /\ Len(compressed) < TokenBits(tokens)
    /\ Len(compressed) \notin TokenBoundaries(tokens)

\* C12 as stated: decompress of a stream that ends part-way through a token
\* (fewer than 9 bits of a token left, or a flag bit 1 followed by fewer than
\* 16 bits) fails with an error; it neither drops the tail silently nor
\* decodes a token from bits that are not there.
C12_LZ77TruncationFails ==
    (pc \in {"lz77_done", "raised"} /\ EndsInsideToken) => (pc = "raised" /\ ~ret.ok)

\* C13 as stated: Huffman decompress (with a tree) that reaches the end of
\* the bit stream with a non-empty, unmatched bit buffer fails with an error
\* instead of returning the text decoded so far.
C13_HuffmanLeftoverBufferFails ==
    (/\ pc = "huffman_done"
     /\ HuffmanFinalBuffer(compressed, tree, <<>>) # <<>>) => ~ret.ok

(***************************************************************************)
(* Further claims about the fixed-width coders, checked under SpecFixed.   *)
(***************************************************************************)
\* the CHARSET of a method's coder
Charset(m) == IF m = "six_bit" THEN SixBitCHARSET ELSE SevenBitCHARSET

\* C14 as stated: a fixed-width coder exists only with a charset of exactly
\* 2^width symbols (64 for SixBitCompressor), so every value of width bits
\* is the code of exactly one symbol and decodes to it.
C14_CharsetSizeIsTwoToWidth ==
    (/\ pc = "fixed_done"
     /\ channel = "external"
     /\ Len(compressed) = Width(method)) =>
        /\ Len(Charset(method)) = 2 ^ Width(method)
        /\ ret.ok
        /\ Len(ret.val) = 1

\* the text as the coder of method m looks its characters up: lower-cased by
\* the 6-bit coder, as given by the 7-bit coder
LookedUp(m, text) == IF m = "six_bit" THEN LowerText(text) ELSE text

\* C15: fixed-width rejection. A compress call of six_bit or seven_bit on a
\* text with a character outside the coder's charset (after lower-casing for
\* six_bit) raises ValueError, the coder's unsupported-character error, and
\* returns nothing: no bits, not even those of the characters before the
\* offending one, and nothing reaches decompress.
C15_UnsupportedSymbolFailsWhole ==
    (/\ pc # "fixed_start"
     /\ channel # "external"
     /\ ~AllInCharset(Charset(method), LookedUp(method, plaintext))) =>
        /\ pc = "fixed_raised"
        /\ ret = Raise("ValueError")
        /\ ret.val = <<>>
        /\ compressed = <<>>

\* C15 witness: seven_bit compress has raised on "aa" followed by e-acute
C15_Witness ==
    /\ pc = "fixed_raised"
    /\ method = "seven_bit"
    /\ plaintext = <<97, 97, 233>>
    /\ ~ret.ok

\* C15 witness for six_bit: compress has raised on "A+", whose second
\* character is outside the charset also after lower-casing
C15_SixBitRaised ==
    /\ pc = "fixed_raised"
    /\ method = "six_bit"
    /\ plaintext = <<65, 43>>
    /\ ret.err = "ValueError"

\* C16: six-bit case folding. For every text whose lower-cased characters
\* are all in the charset, SixBitCompressor().compress(text) succeeds and
\* returns the same bits as compress(text.lower()), 6 per character; in
\* particular compress("HELLO") == compress("hello").
C16_SixBitCaseFolding ==
    (/\ method = "six_bit"
     /\ pc \in {"fixed_compressed", "fixed_raised"}
     /\ AllInCharset(SixBitCHARSET, LowerText(plaintext))) =>
        /\ pc = "fixed_compressed"
        /\ ret = SixBitCompress(LowerText(plaintext))
        /\ ret.ok
        /\ Len(ret.val) = 6 * Len(plaintext)
        /\ plaintext = Hello => ret = SixBitCompress(HelloLower)

\* C16 witness: compress("HELLO") has returned the 30 bits of
\* compress("hello")
C16_Witness ==
    /\ method = "six_bit"
    /\ pc = "fixed_compressed"
    /\ plaintext = Hello
    /\ plaintext # LowerText(plaintext)
    /\ ret = SixBitCompress(HelloLower)
    /\ Len(ret.val) = 30

(***************************************************************************)
(* The LZ77 wire format, checked under SpecLZ77.                           *)
(***************************************************************************)
\* the w-bit field of n, most significant bit first
MsbFirst(n, w) == [j \in 1..w |-> (n \div (2 ^ (w - j))) % 2]

\* a token on the wire: 0 | byte[8], or 1 | distance[12] | length[4]
TokenWire(t) ==
    IF t.flag = 0 THEN <<0>> \o MsbFirst(t.byte, 8)
    ELSE <<1>> \o MsbFirst(t.distance, 12) \o MsbFirst(t.length, 4)

RECURSIVE TokensWire(_)
TokensWire(ts) == IF ts = <<>> THEN <<>> ELSE TokenWire(Head(ts)) \o TokensWire(Tail(ts))

\* the tokens cover the input in order: the first starts at byte 0, each
\* starts where the one before ended, a literal carries the byte at its
\* position and a match repeats the bytes distance back
TokensInInputOrder ==
    /\ TokenLengths(tokens) = Len(data)
    /\ \A k \in 1..Len(tokens) :
         /\ tokens[k].pos = TokenLengths(SubSeq(tokens, 1, k - 1))
         /\ tokens[k].flag = 0 => tokens[k].byte = data[tokens[k].pos + 1]
         /\ tokens[k].flag = 1 =>
              /\ tokens[k].distance \in 1..4095
              /\ tokens[k].length \in 1..15
              /\ \A o \in 1..tokens[k].length :
                   data[tokens[k].pos + o] = data[tokens[k].pos + o - tokens[k].distance]

NumLiterals == Cardinality({k \in 1..Len(tokens) : tokens[k].flag = 0})
NumMatches == Cardinality({k \in 1..Len(tokens) : tokens[k].flag = 1})

\* C19: LZ77 wire format. What compress_data returns is the concatenation,
\* in input order, of its tokens, each flag 0 + the byte in 8 bits or flag 1
\* + the distance in 12 bits + the length in 4 bits, every field most
\* significant bit first, followed by k zero bits, 0 <= k <= 7, that make
\* the length a multiple of 8; total bits = 9*literals + 17*matches + k.
C19_LZ77WireFormat ==
    /\ pc = "raised" => compressed # <<>>
    /\ pc = "lz77_compressed" =>
        LET wire == TokensWire(tokens)
            k == Len(ret.val) - Len(wire)
        IN  /\ ret.ok /\ ret.type = "bitarray"
            /\ TokensInInputOrder
            /\ k \in 0..7
            /\ Len(ret.val) % 8 = 0
            /\ Len(ret.val) = 9 * NumLiterals + 17 * NumMatches + k
            /\ SubSeq(ret.val, 1, Len(wire)) = wire
            /\ \A j \in (Len(wire) + 1)..Len(ret.val) : ret.val[j] = 0

\* C19 witness: compress_data has returned a stream of literal and match
\* tokens that ends in pad bits, one match with a distance of 16 or more (both
\* bytes of the token carry distance bits)
C19_Witness ==
    /\ pc = "lz77_compressed"
    /\ NumLiterals >= 2
    /\ NumMatches >= 2
    /\ Len(ret.val) > Len(TokensWire(tokens))
    /\ \E k \in 1..Len(tokens) : tokens[k].flag = 1 /\ tokens[k].distance >= 16

(***************************************************************************)
(* The Compressor facade of compression.py, SpecFacade: a construction,    *)
(* then a compress call followed by a decompress call on what it returned, *)
(* or a decompress call on a value from outside. Each call is one step.    *)
(***************************************************************************)
\* longest text over FacadeAlphabet given to Compressor.compress
MaxFacadeLen == 2

\* 'utf8', 'lz77', 'huffman', 'six_bit', 'seven_bit' as code points
NameUtf8 == <<117, 116, 102, 56>>
NameLz77 == <<108, 122, 55, 55>>
NameHuffman == <<104, 117, 102, 102, 109, 97, 110>>
NameSixBit == <<115, 105, 120, 95, 98, 105, 116>>
NameSevenBit == <<115, 101, 118, 101, 110, 95, 98, 105, 116>>
VALID_METHODS == {NameUtf8, NameLz77, NameHuffman, NameSixBit, NameSevenBit}

\* the string self.method holds, as the tag the other specifications use;
\* "unsupported" stands for every string outside VALID_METHODS
MethodTag(m) ==
    CASE m = NameUtf8 -> "utf8"
      [] m = NameLz77 -> "lz77"
      [] m = NameHuffman -> "huffman"
      [] m = NameSixBit -> "six_bit"
      [] m = NameSevenBit -> "seven_bit"
      [] OTHER -> "unsupported"

\* a constructor that accepts every name
CompressorNewUnchecked(method_arg) == Ok("Compressor", LowerText(method_arg))

\* Compressor(method_arg): self.method = method.lower(), then the check
\* against VALID_METHODS
CompressorNew(method_arg) ==
    IF LowerText(method_arg) \notin VALID_METHODS THEN Raise("ValueError")
    ELSE Ok("Compressor", LowerText(method_arg))

\* Compressor._utf8_compress
Utf8Compress(plain) ==
    LET bytes == Utf8Encode(plain)
    IN  IF bytes = <<-1>> THEN Raise("UnicodeEncodeError")
        ELSE Ok("bitarray", FromBytes(bytes))

\* Compressor.decompress, method 'utf8': compressed.tobytes().decode('utf-8')
Utf8Decompress(bits) ==
    LET text == Utf8Decode(ToBytes(bits))
    IN  IF text = <<-1>> THEN Raise("UnicodeDecodeError") ELSE Ok("str", text)

\* LZ77Compressor.compress_data: the while loop, fill() and return
RECURSIVE LZ77CompressLoop(_, _, _, _)
LZ77CompressLoop(d, p, ws, out) ==
    IF p >= Len(d) THEN Ok("bitarray", Fill(out))
    ELSE LET match == findLongestMatch(d, p, ws)
         IN  IF match # NoMatch
             THEN LET bs == MatchBytes(match[1], match[2])
                  IN  IF IsByte(bs[1]) /\ IsByte(bs[2])
                      THEN LZ77CompressLoop(d, p + match[2], ws,
                               out \o <<1>> \o ToBits(bs[1], 8) \o ToBits(bs[2], 8))
                      ELSE Raise("ValueError")
             ELSE LZ77CompressLoop(d, p + 1, ws, out \o <<0>> \o ToBits(d[p + 1], 8))

\* LZ77Compressor(configured).compress_data(text)
LZ77CompressData(text, configured) ==
    LET d == Utf8Encode(text)
    IN  IF d = <<-1>> THEN Raise("UnicodeEncodeError")
        ELSE LZ77CompressLoop(d, 0, LZ77WindowSize(configured), <<>>)

\* LZ77Compressor.decompress: the while loop and the final decode
RECURSIVE LZ77DecompressLoop(_, _)
LZ77DecompressLoop(bits, out) ==
    IF Len(bits) < 9
    THEN LET out_data == Utf8Decode(out)
         IN  IF out_data = <<-1>> THEN Raise("UnicodeDecodeError")
             ELSE Ok("str", out_data)
    ELSE IF bits[1] = 0
    THEN LZ77DecompressLoop(PySlice(bits, 9, Len(bits)),
                            Append(out, ToBytes(PySlice(bits, 1, 9))[1]))
    ELSE LET rest == Tail(bits)
             bytes2 == ToBytes(PySlice(rest, 8, 16))
         IN  IF bytes2 = <<>> THEN Raise("TypeError")
             ELSE LET byte1 == ToBytes(PySlice(rest, 0, 8))[1]
                      byte2 == bytes2[1]
                      distance == BitOr(byte1 * 16, byte2 \div 16)
                      length == BitAnd(byte2, 15)
                      copied == CopyMatch(out, distance, length)
                  IN  IF copied = <<-1>> THEN Raise("IndexError")
                      ELSE LZ77DecompressLoop(PySlice(rest, 16, Len(rest)), copied)

LZ77Decompress(bits) == LZ77DecompressLoop(bits, <<>>)

\* build_tree: the while loop
RECURSIVE BuildTreeLoop(_)
BuildTreeLoop(h) == IF Len(h) > 1 THEN BuildTreeLoop(MergeStep(h)[3]) ELSE h

\* HuffmanCompressor.build_tree(text) for a non-empty text
HuffmanBuildTree(text) == heappop(BuildTreeLoop(InitialHeap(text)))[1].pairs

\* HuffmanCompressor.compress(text)
HuffmanCompress(text) ==
    LET h == BuildTreeLoop(InitialHeap(text))
    IN  IF h = <<>> THEN Raise("IndexError")
        ELSE BitarrayEncode(heappop(h)[1].pairs, text, <<>>)

\* a compress that takes bytes for text
CompressorCompressCoercing(m, argt, plain) ==
    IF argt \notin {"str", "bytes"} THEN Raise("TypeError")
    ELSE IF m = "utf8" THEN Utf8Compress(plain)
    ELSE IF m = "lz77" THEN LZ77CompressData(plain, DefaultWindowSize)
    ELSE IF m = "huffman" THEN HuffmanCompress(plain)
    ELSE IF m = "six_bit" THEN SixBitCompress(plain)
    ELSE IF m = "seven_bit" THEN SevenBitCompress(plain)
    ELSE Raise("ValueError")

\* Compressor.compress(plaintext) of an instance whose method is m, given a
\* value of Python type argt
CompressorCompress(m, argt, plain) ==
    IF argt # "str" THEN Raise("TypeError")
    ELSE IF m = "utf8" THEN Utf8Compress(plain)
    ELSE IF m = "lz77" THEN LZ77CompressData(plain, DefaultWindowSize)
    ELSE IF m = "huffman" THEN HuffmanCompress(plain)
    ELSE IF m = "six_bit" THEN SixBitCompress(plain)
    ELSE IF m = "seven_bit" THEN SevenBitCompress(plain)
    ELSE Raise("ValueError")

\* Compressor.decompress(compressed) of an instance whose method is m, given
\* a value of Python type argt
CompressorDecompress(m, argt, bits) ==
    IF argt # "bitarray" THEN Raise("TypeError")
    ELSE IF m = "utf8" THEN Utf8Decompress(bits)
    ELSE IF m = "lz77" THEN LZ77Decompress(bits)
    ELSE IF m = "huffman" THEN CompressorDecompressHuffman(bits)
    ELSE IF m = "six_bit" THEN SixBitDecompress(bits)
    ELSE IF m = "seven_bit" THEN SevenBitDecompress(bits)
    ELSE Raise("ValueError")

\* c = Compressor(name)
CompressorInit ==
    /\ pc = "facade_new"
    /\ ret' = CompressorNew(name)
    /\ method' = MethodTag(LowerText(name))
    /\ pc' = IF ret'.ok THEN "facade_ready" ELSE "facade_raised"
    /\ UNCHANGED <<storage, handlers, name, argtype, plaintext, channel, compressed, window_size, data, i,
                   output_buffer, tokens, heap, tree>>

\* A a e-acute euro-sign and the lone surrogate U+D800
FacadeAlphabet == {65, 97, 233, 8364, 55296}
FacadeTexts == Texts(FacadeAlphabet, MaxFacadeLen)

\* the values given to compress: texts, and b"ab", None, bitarray('01') and
\* the list [97, 98]
CompressArgs ==
    {[type |-> "str", val |-> t] : t \in FacadeTexts}
    \cup {[type |-> "bytes", val |-> <<97, 98>>], [type |-> "NoneType", val |-> <<>>],
          [type |-> "bitarray", val |-> <<0, 1>>], [type |-> "list", val |-> <<97, 98>>]}

\* the values given to decompress from outside: bit streams, and "01",
\* b"\x00\x01", None and the list [0, 1]
DecompressArgs ==
    {[type |-> "bitarray", val |-> b] : b \in BitStrings(MaxStreamBits)}
    \cup {[type |-> "str", val |-> <<48, 49>>], [type |-> "bytes", val |-> <<0, 1>>],
          [type |-> "NoneType", val |-> <<>>], [type |-> "list", val |-> <<0, 1>>]}

\* c.compress(arg)
CompressorCompressCall ==
    /\ pc = "facade_ready"
    /\ \E arg \in CompressArgs :
         /\ argtype' = arg.type
         /\ plaintext' = arg.val
         /\ ret' = CompressorCompress(method, arg.type, arg.val)
    /\ pc' = IF ret'.ok THEN "facade_compressed" ELSE "facade_compress_raised"
    /\ UNCHANGED <<storage, handlers, name, method, channel, compressed, window_size, data, i,
                   output_buffer, tokens, heap, tree>>

\* c.decompress(c.compress(plaintext))
CompressorDecompressOwn ==
    /\ pc = "facade_compressed"
    /\ argtype' = ret.type
    /\ channel' = "exact"
    /\ compressed' = ret.val
    /\ ret' = CompressorDecompress(method, ret.type, ret.val)
    /\ pc' = IF ret'.ok THEN "facade_decompressed" ELSE "facade_decompress_raised"
    /\ UNCHANGED <<storage, handlers, name, method, plaintext, window_size, data, i, output_buffer,
                   tokens, heap, tree>>

\* c.decompress(arg) on a value from outside
CompressorDecompressCall ==
    /\ pc = "facade_ready"
    /\ \E arg \in DecompressArgs :
         /\ argtype' = arg.type
         /\ compressed' = arg.val
         /\ ret' = CompressorDecompress(method, arg.type, arg.val)
    /\ channel' = "external"
    /\ pc' = IF ret'.ok THEN "facade_decompressed" ELSE "facade_decompress_raised"
    /\ UNCHANGED <<storage, handlers, name, method, plaintext, window_size, data, i, output_buffer,
                   tokens, heap, tree>>

\* s.upper() for ASCII s
UpperText(text) ==
    [k \in 1..Len(text) |-> IF text[k] >= 97 /\ text[k] <= 122 THEN text[k] - 32
                            ELSE text[k]]

\* s.capitalize() for lower-case ASCII s
Capitalize(text) == [k \in 1..Len(text) |-> IF k = 1 THEN UpperText(text)[1] ELSE text[k]]

\* the names given to Compressor(...): the five methods in lower case, in
\* upper case and capitalised, and 'zip', '', 'utf-8', 'lz78' and 'SIX BIT'
MethodNames ==
    VALID_METHODS
    \cup {UpperText(m) : m \in VALID_METHODS}
    \cup {Capitalize(m) : m \in VALID_METHODS}
    \cup {<<122, 105, 112>>, <<>>, <<117, 116, 102, 45, 56>>, <<108, 122, 55, 56>>,
          <<83, 73, 88, 32, 66, 73, 84>>}

\* before Compressor(name): no instance, so no method yet
InitFacade ==
    /\ storage = <<>>
    /\ handlers = <<>>
    /\ name \in MethodNames
    /\ argtype = "NoneType"
    /\ method = ""
    /\ pc = "facade_new"
    /\ plaintext = <<>>
    /\ channel = "none"
    /\ compressed = <<>>
    /\ ret = None
    /\ window_size = 0
    /\ data = <<>>
    /\ i = 0
    /\ output_buffer = <<>>
    /\ tokens = <<>>
    /\ heap = <<>>
    /\ tree = <<>>

NextFacade ==
    \/ CompressorInit
    \/ CompressorCompressCall
    \/ CompressorDecompressOwn
    \/ CompressorDecompressCall

SpecFacade == InitFacade /\ [][NextFacade]_vars

(***************************************************************************)
(* Claims about the facade, checked under SpecFacade.                      *)
(***************************************************************************)
\* the tags of the five supported methods
SupportedTags == {"utf8", "lz77", "huffman", "six_bit", "seven_bit"}

\* a Compressor instance exists: construction has returned it
InstanceExists == pc \notin {"facade_new", "facade_raised"}

\* C17 as stated: constructing Compressor with a method name outside {utf8,
\* lz77, huffman, six_bit, seven_bit} fails at construction.
C17_NameOutsideSetFails ==
    (pc # "facade_new" /\ name \notin VALID_METHODS) => pc = "facade_raised"

\* C17 amended: the name is lower-cased first. Constructing Compressor with
\* a name whose lower-cased form is outside the set raises ValueError at
\* construction; a name whose lower-cased form is in the set ('LZ77', 'Utf8')
\* constructs an instance of that method. So every instance that exists has
\* a supported method, and the unsupported-method branches of compress and
\* decompress are never taken.
C17_LoweredNameOutsideSetFails ==
    pc # "facade_new" =>
        /\ LowerText(name) \notin VALID_METHODS =>
               (pc = "facade_raised" /\ ret = Raise("ValueError"))
        /\ LowerText(name) \in VALID_METHODS =>
               (InstanceExists /\ method = MethodTag(LowerText(name)))
        /\ InstanceExists => method \in SupportedTags

\* C17 witness: Compressor('zip') has raised
C17_Witness ==
    /\ pc = "facade_raised"
    /\ name = <<122, 105, 112>>
    /\ ret.err = "ValueError"

\* C17 witness of the amended case: Compressor('LZ77') was constructed and
\* has compressed a text as method lz77
C17_UpperCaseConstructed ==
    /\ pc = "facade_compressed"
    /\ name = UpperText(NameLz77)
    /\ name \notin VALID_METHODS
    /\ method = "lz77"
    /\ plaintext # <<>>

\* C18: facade type contract. For every method, compress given a value that
\* is not a str, and decompress given a value that is not a bitarray, raise
\* TypeError: nothing is returned, and the value is not converted (bytes
\* are not decoded, a list or a str of bits is not made into a bitarray).
C18_TypeContract ==
    /\ (/\ pc \in {"facade_compressed", "facade_compress_raised"}
        /\ argtype # "str") =>
           (pc = "facade_compress_raised" /\ ret = Raise("TypeError"))
    /\ (/\ pc \in {"facade_decompressed", "facade_decompress_raised"}
        /\ argtype # "bitarray") =>
           (pc = "facade_decompress_raised" /\ ret = Raise("TypeError"))

\* C18 witness: Compressor('seven_bit').compress(b"ab") has raised TypeError
C18_Witness ==
    /\ pc = "facade_compress_raised"
    /\ method = "seven_bit"
    /\ argtype = "bytes"
    /\ plaintext = <<97, 98>>
    /\ ret.err = "TypeError"

\* C18 witness of the other call: Compressor('utf8').decompress("01") has
\* raised TypeError
C18_DecompressRaised ==
    /\ pc = "facade_decompress_raised"
    /\ method = "utf8"
    /\ argtype = "str"
    /\ compressed = <<48, 49>>
    /\ ret.err = "TypeError"

\* the number of bytes UTF-8 takes for a code point
Utf8Width(c) == IF c < 128 THEN 1 ELSE IF c < 2048 THEN 2 ELSE IF c < 65536 THEN 3 ELSE 4

RECURSIVE Utf8Length(_)
Utf8Length(text) ==
    IF text = <<>> THEN 0 ELSE Utf8Width(Head(text)) + Utf8Length(Tail(text))

\* the bits of a sequence of bytes, 8 per byte, most significant first
RECURSIVE BytesMsbFirst(_)
BytesMsbFirst(bytes) ==
    IF bytes = <<>> THEN <<>> ELSE MsbFirst(Head(bytes), 8) \o BytesMsbFirst(Tail(bytes))

\* no character of the text is a lone surrogate
NoSurrogate(text) == \A k \in 1..Len(text) : ~IsSurrogate(text[k])

\* method 'utf8': compress returns exactly the UTF-8 bytes of the text, 8
\* bits per byte most significant first, and decompress of them returns the
\* text
Utf8PassThrough ==
    /\ pc \in {"facade_compressed", "facade_compress_raised"} =>
        /\ pc = "facade_compressed"
        /\ ret = Ok("bitarray", BytesMsbFirst(Utf8Encode(plaintext)))
        /\ Len(ret.val) = 8 * Utf8Length(plaintext)
    /\ (pc \in {"facade_decompressed", "facade_decompress_raised"}
        /\ channel = "exact") =>
        /\ compressed = BytesMsbFirst(Utf8Encode(plaintext))
        /\ pc = "facade_decompressed"
        /\ ret = Ok("str", plaintext)

\* a call of method 'utf8' on a text: its compress, or the decompress of
\* what that compress returned
Utf8TextCall ==
    /\ method = "utf8"
    /\ \/ pc \in {"facade_compressed", "facade_compress_raised"} /\ argtype = "str"
       \/ pc \in {"facade_decompressed", "facade_decompress_raised"} /\ channel = "exact"

\* C20 as stated: for method 'utf8', compress(text) is exactly the UTF-8
\* bytes of text, 8 bits per byte most significant bit first, and
\* decompress(compress(text)) == text for every text.
C20_Utf8RoundTripEveryText == Utf8TextCall => Utf8PassThrough

\* C20 amended: the same for every text that holds no lone surrogate code
\* point (U+D800..U+DFFF); on a text that holds one, compress raises
\* UnicodeEncodeError and returns nothing.
C20_Utf8RoundTripEncodableText ==
    Utf8TextCall =>
        IF NoSurrogate(plaintext) THEN Utf8PassThrough
        ELSE pc = "facade_compress_raised" /\ ret = Raise("UnicodeEncodeError")

\* C20 witness: Compressor('utf8') has returned the text "e-acute euro-sign"
\* from the 40 bits its compress made of it
C20_Witness ==
    /\ method = "utf8"
    /\ pc = "facade_decompressed"
    /\ channel = "exact"
    /\ plaintext = <<233, 8364>>
    /\ Len(compressed) = 40
    /\ ret = Ok("str", plaintext)

\* C20 witness of the excluded case: compress has raised on a text with a
\* lone surrogate
C20_SurrogateRaised ==
    /\ method = "utf8"
    /\ pc = "facade_compress_raised"
    /\ plaintext = <<97, 55296>>
    /\ ret.err = "UnicodeEncodeError"

(***************************************************************************)
(* Further claims about the Huffman coder, checked under SpecHuffman.      *)
(***************************************************************************)
\* the nodes of the queue that weigh less than w
Lighter(h, w) == Cardinality({k \in 1..Len(h) : h[k].weight < w})

\* C21 as stated: at every merge step of build_tree, the two nodes taken
\* from the queue are the two of lowest weight among all nodes in the queue
\* at that moment (ties aside): no node is lighter than the lighter of the
\* two, and at most that one is lighter than the heavier.
C21_MergeTakesTwoLowest ==
    (pc = "huffman_build" /\ Len(heap) > 1) =>
        LET low == MergeStep(heap)[1]
            high == MergeStep(heap)[2]
        IN  /\ Lighter(heap, Min(low.weight, high.weight)) = 0
            /\ Lighter(heap, Max(low.weight, high.weight)) <= 1

(***************************************************************************)
(* Claims about findLongestMatch, checked under SpecLZ77 at every position *)
(* compress_data calls it on.                                              *)
(***************************************************************************)
\* the L bytes at p repeat the bytes from window start s on, the match
\* running over p when L is more than p - s
IsMatchAt(d, s, p, L) ==
    \A k \in 0..(L - 1) : d[p + k + 1] = d[s + (k % (p - s)) + 1]

\* the window starts open to position p
WindowStarts(p, ws) == Max(0, p - ws)..(p - 1)

\* the lengths 2..min(15, len(data) - p) that have a match at p
MatchLengths(d, p, ws) ==
    {L \in 2..Min(lookahead_buffer_size, Len(d) - p) :
        \E s \in WindowStarts(p, ws) : IsMatchAt(d, s, p, L)}

\* the greatest element of a non-empty set of numbers
Greatest(S) == CHOOSE x \in S : \A y \in S : y <= x

\* compress_data is about to call findLongestMatch(data, i)
AtFindLongestMatch == pc = "lz77_compress" /\ i < Len(data)

\* C22 as stated: findLongestMatch(data, p) returns the greatest length L in
\* 2..min(15, len(data) - p) that has a (possibly self-overlapping) match in
\* the window, so 15 when 15 bytes remain and a match of length 15 exists,
\* and None exactly when no length has a match.
C22_ReturnsGreatestLength ==
    AtFindLongestMatch =>
        LET found == findLongestMatch(data, i, window_size)
            lengths == MatchLengths(data, i, window_size)
        IN  IF lengths = {} THEN found = NoMatch
            ELSE found # NoMatch /\ found[2] = Greatest(lengths)

\* the distances of the window starts that give a match of length L at p
MatchDistances(d, p, ws, L) ==
    {p - s : s \in {t \in WindowStarts(p, ws) : IsMatchAt(d, t, p, L)}}

\* C23: LZ77 tie-break. When several window starts give a match of the
\* length findLongestMatch returns, it returns the one with the smallest
\* start index, that is the largest distance.
C23_LargestDistanceWins ==
    AtFindLongestMatch =>
        LET found == findLongestMatch(data, i, window_size)
        IN  found # NoMatch =>
              /\ found[1] \in MatchDistances(data, i, window_size, found[2])
              /\ found[1] = Greatest(MatchDistances(data, i, window_size, found[2]))

\* C23 witness: findLongestMatch is called where three or more window starts
\* match the length it returns, and it returns the largest of their distances
C23_Witness ==
    /\ AtFindLongestMatch
    /\ findLongestMatch(data, i, window_size) # NoMatch
    /\ LET found == findLongestMatch(data, i, window_size)
           distances == MatchDistances(data, i, window_size, found[2])
       IN  /\ Cardinality(distances) >= 3
           /\ found[1] = Greatest(distances)
           /\ \E smaller \in distances : smaller < found[1]

\* the distinct symbols of a text
Symbols(text) == {text[k] : k \in 1..Len(text)}

\* a is a prefix of b (a = b included)
IsPrefix(a, b) == Len(a) <= Len(b) /\ SubSeq(b, 1, Len(a)) = a

\* build_tree has returned (compress then returned or raised)
TreeBuilt == pc \in {"huffman_compressed", "huffman_raised"}

\* C24: Huffman codes are prefix-free. For every text with at least two
\* distinct symbols, build_tree returns one code per distinct symbol, every
\* code non-empty, the codes pairwise distinct and none a prefix of another.
C24_CodesPrefixFree ==
    (TreeBuilt /\ Cardinality(Symbols(plaintext)) >= 2) =>
        /\ Len(tree) = Cardinality(Symbols(plaintext))
        /\ {tree[k][1] : k \in 1..Len(tree)} = Symbols(plaintext)
        /\ \A k \in 1..Len(tree) : tree[k][2] # <<>>
        /\ \A k, o \in 1..Len(tree) :
             k # o => (tree[k][2] # tree[o][2] /\ ~IsPrefix(tree[k][2], tree[o][2]))

\* C24 witness: build_tree has returned three codes for "aaaaabbc", one of
\* one bit and two of two bits
C24_Witness ==
    /\ TreeBuilt
    /\ plaintext = HuffmanExample
    /\ Len(tree) = 3
    /\ \E k \in 1..3 : Len(tree[k][2]) = 1
    /\ \E k \in 1..3 : Len(tree[k][2]) = 2

\* C25: Huffman round trip with the tree carried alongside. For every text
\* with at least two distinct symbols compress succeeds, a second call of
\* build_tree on the text yields the tree compress used, and decompress of
\* the bits compress returned, with that tree, returns the text.
C25_HuffmanRoundTripWithTree ==
    Cardinality(Symbols(plaintext)) >= 2 =>
        /\ pc # "huffman_raised"
        /\ pc = "huffman_compressed" => tree = HuffmanBuildTree(plaintext)
        /\ (pc = "huffman_done" /\ channel = "exact") =>
             /\ tree = HuffmanBuildTree(plaintext)
             /\ compressed = HuffmanCompress(plaintext).val
             /\ ret = Ok("str", plaintext)

\* C25 witness: decompress has returned "aaaaabbc" from the 14 bits compress
\* made of it and the tree of three codes
C25_Witness ==
    /\ pc = "huffman_done"
    /\ channel = "exact"
    /\ plaintext = HuffmanExample
    /\ Len(tree) = 3
    /\ Len(compressed) = 14
    /\ ret = Ok("str", plaintext)

\* the stream given to decompress is made of whole chunks, the k-th of
\* which holds value v
ChunkHolds(k, v) ==
    /\ k * Width(method) <= Len(compressed)
    /\ SubSeq(compressed, (k - 1) * Width(method) + 1, k * Width(method))
         = MsbFirst(v, Width(method))

\* some chunk of the stream holds a value that has no charset entry
SomeChunkInvalid ==
    \E k \in 1..Len(compressed) :
        \E v \in Len(Charset(method))..(2 ^ Width(method) - 1) : ChunkHolds(k, v)

\* C26: fixed-width invalid code. A six_bit or seven_bit decompress call on
\* a stream of whole chunks one of which holds a value without a charset
\* entry raises ValueError, the coder's invalid-code error, and returns no
\* text: not the symbols decoded before the bad chunk either.
C26_InvalidCodeFailsWhole ==
    (/\ pc = "fixed_done"
     /\ Len(compressed) % Width(method) = 0
     /\ SomeChunkInvalid) =>
        /\ ret = Raise("ValueError")
        /\ ret.type # "str"
        /\ ret.val = <<>>

\* C26 witness: six_bit decompress has raised on the chunk of 'b' followed
\* by the chunk of value 62
C26_Witness ==
    /\ pc = "fixed_done"
    /\ method = "six_bit"
    /\ compressed = MsbFirst(1, 6) \o MsbFirst(62, 6)
    /\ ChunkHolds(1, 1)
    /\ SomeChunkInvalid
    /\ ret.err = "ValueError"

\* the bit count of the fixed-width stream of the text is a whole number of bytes
WholeBytes(m, text) == (Len(text) * Width(m)) % 8 = 0

\* a decompress call on bits that went through Encryptor.encrypt and decrypt
EncryptedDone == pc = "fixed_done" /\ channel = "encrypted"

\* C27: a six_bit (seven_bit) stream that went through the zero padding of
\* Encryptor.encrypt/decrypt (tobytes, frombytes) decompresses without an
\* error to the (lower-cased for six_bit) text, followed by exactly one
\* symbol of code 0 ('a' for six_bit, 'A' for seven_bit) when the bit count
\* is not a multiple of 8, which is when n mod 4 # 0 for six_bit and
\* n mod 8 # 0 for seven_bit, and by nothing otherwise
C27_PaddedStreamDecodesWithOneExtraSymbol ==
    EncryptedDone =>
        /\ ret.ok
        /\ ret.type = "str"
        /\ WholeBytes(method, plaintext) <=>
               (Len(plaintext) % (IF method = "six_bit" THEN 4 ELSE 8) = 0)
        /\ ret.val = IF WholeBytes(method, plaintext)
                     THEN LookedUp(method, plaintext)
                     ELSE Append(LookedUp(method, plaintext), Charset(method)[1])
        /\ Charset(method)[1] = IF method = "six_bit" THEN 97 ELSE 65

\* "Az" decoded by six_bit after the padding as "aza"
C27_Witness ==
    /\ EncryptedDone
    /\ method = "six_bit"
    /\ plaintext = <<65, 122>>
    /\ ret.val = <<97, 122, 97>>

\* "Ba1Ba1Ba", 56 bits, decoded by seven_bit after the padding as itself
C27_WholeBytesExact ==
    /\ EncryptedDone
    /\ method = "seven_bit"
    /\ Len(plaintext) = 8
    /\ ret.val = plaintext

(***************************************************************************)
(* store_message of server.py: the handler of POST /store_message. The     *)
(* server (app.run, server.py:1016) serves each request on a thread of its *)
(* own, so the handler's steps on the db file of a delivery path           *)
(* interleave with those of the other requests. Strings are sequences of   *)
(* code points.                                                            *)
(***************************************************************************)
\* most requests in flight together
MaxRequests == 2

Requests == 1..MaxRequests

\* the delivery path names of server.py
Path ==
    [email |-> <<101, 109, 97, 105, 108>>,
     sms |-> <<115, 109, 115>>,
     send_email |-> <<115, 101, 110, 100, 95, 101, 109, 97, 105, 108>>,
     send_sms |-> <<115, 101, 110, 100, 95, 115, 109, 115>>,
     gmail |-> <<103, 109, 97, 105, 108>>,
     text |-> <<116, 101, 120, 116>>,
     message |-> <<109, 101, 115, 115, 97, 103, 101>>,
     windtexter |-> <<119, 105, 110, 100, 116, 101, 120, 116, 101, 114>>,
     generic |-> <<103, 101, 110, 101, 114, 105, 99>>]

\* str.strip() of a string of code points below 128
Strip(str) ==
    LET IsSpace(c) == c \in {9, 10, 11, 12, 13, 28, 29, 30, 31, 32}
        RECURSIVE LStrip(_)
        LStrip(t) == IF t # <<>> /\ IsSpace(Head(t)) THEN LStrip(Tail(t)) ELSE t
        RECURSIVE RStrip(_)
        RStrip(t) ==
            IF t # <<>> /\ IsSpace(t[Len(t)]) THEN RStrip(SubSeq(t, 1, Len(t) - 1))
            ELSE t
    IN  RStrip(LStrip(str))

\* normalize_path(path), path a str
normalize_path(path) ==
    IF path = <<>> THEN <<>>
    ELSE LET path_clean == Strip(LowerText(path))
         IN  IF path_clean \in {Path.email, Path.send_email, Path.gmail} THEN Path.email
             ELSE IF path_clean \in {Path.sms, Path.send_sms, Path.text, Path.message}
             THEN Path.sms
             ELSE path_clean

\* validate_path(delivery_path)
validate_path(delivery_path) ==
    normalize_path(delivery_path) \in {Path.email, Path.sms, Path.windtexter}

\* alias_map.get(raw_path, raw_path)
alias_map(raw_path) ==
    IF raw_path = Path.send_email THEN Path.email
    ELSE IF raw_path = Path.send_sms THEN Path.sms
    ELSE raw_path

\* the record store_message appends: of complete_data, the fields that tell
\* one record from another
CompleteData(id, path) == [id |-> id, delivery_path |-> path]

\* a file of STORAGE_PATH: size is its length in records' worth of bytes,
\* valid says that json.load accepts it, db is the list json.load returns
FileOf(db) == [db |-> db, valid |-> TRUE, size |-> Len(db)]

\* the file after open(path_file, 'w'): no bytes, which json.load rejects
Truncated == [db |-> <<>>, valid |-> FALSE, size |-> 0]

\* the file after json.dump(db, f) through a handle opened with 'w' and the
\* close: the handle writes from offset 0, over what another handle wrote
\* since this one truncated the file; a longer old content keeps its tail,
\* which json.load rejects (the records of one file have the same
\* delivery_path and ids of one digit, so more records are more bytes)
Dumped(file, db) ==
    IF file.size > Len(db)
    THEN [db |-> <<>>, valid |-> FALSE, size |-> file.size]
    ELSE FileOf(db)

\* the storage with the file of path set to file
WithFile(st, path, file) ==
    [q \in DOMAIN st \cup {path} |-> IF q = path THEN file ELSE st[q]]

\* lines 917-948: data = request.json up to the validate_path answer
StoreValidate(r) ==
    /\ pc = "store"
    /\ handlers[r].pc = "received"
    /\ LET raw_path == LowerText(handlers[r].delivery_path)
           path == alias_map(raw_path)
       IN  IF ~validate_path(path)
           THEN handlers' = [handlers EXCEPT ![r].pc = "done", ![r].status = 400,
                                             ![r].path = path]
           ELSE handlers' = [handlers EXCEPT ![r].pc = "validated", ![r].path = path]
    /\ UNCHANGED <<storage, name, argtype, method, pc, plaintext, channel, compressed,
                   ret, window_size, data, i, output_buffer, tokens, heap, tree>>

\* lines 973-982: os.path.exists, json.load (db = [] on JSONDecodeError or
\* when there is no file), db.append(complete_data)
StoreLoad(r) ==
    /\ pc = "store"
    /\ handlers[r].pc = "validated"
    /\ LET path_file == handlers[r].path
           db == IF path_file \in DOMAIN storage /\ storage[path_file].valid
                 THEN storage[path_file].db
                 ELSE <<>>
       IN  handlers' = [handlers EXCEPT
                            ![r].pc = "loaded",
                            ![r].db = Append(db, CompleteData(r, path_file))]
    /\ UNCHANGED <<storage, name, argtype, method, pc, plaintext, channel, compressed,
                   ret, window_size, data, i, output_buffer, tokens, heap, tree>>

\* line 984: open(path_file, 'w')
StoreOpen(r) ==
    /\ pc = "store"
    /\ handlers[r].pc = "loaded"
    /\ storage' = WithFile(storage, handlers[r].path, Truncated)
    /\ handlers' = [handlers EXCEPT ![r].pc = "opened"]
    /\ UNCHANGED <<name, argtype, method, pc, plaintext, channel, compressed,
                   ret, window_size, data, i, output_buffer, tokens, heap, tree>>

\* lines 985-990: json.dump(db, f, indent=2), the close of the with block,
\* and the answer {"status": "stored", ...}
StoreDump(r) ==
    /\ pc = "store"
    /\ handlers[r].pc = "opened"
    /\ storage' = WithFile(storage, handlers[r].path,
                           Dumped(storage[handlers[r].path], handlers[r].db))
    /\ handlers' = [handlers EXCEPT ![r].pc = "done", ![r].status = 200]
    /\ UNCHANGED <<name, argtype, method, pc, plaintext, channel, compressed,
                   ret, window_size, data, i, output_buffer, tokens, heap, tree>>

\* the delivery_path values of the requests: "Email", "send_email", "gmail",
\* "SMS", and "generic", the default of data.get("delivery_path", "generic")
DeliveryPaths ==
    {<<69, 109, 97, 105, 108>>, Path.send_email, Path.gmail, <<83, 77, 83>>, Path.generic}

\* the record stored before the requests arrive, and the storage holding it
EarlierRecord == CompleteData(0, Path.email)
InitialStorage == [q \in {Path.email} |-> FileOf(<<EarlierRecord>>)]

\* email_db.json holds one earlier record, no other file exists, and every
\* request has arrived
InitStore ==
    /\ storage = InitialStorage
    /\ handlers \in [Requests -> {[pc |-> "received", delivery_path |-> d,
                                   path |-> <<>>, db |-> <<>>, status |-> 0]
                                  : d \in DeliveryPaths}]
    /\ name = <<>>
    /\ argtype = "NoneType"
    /\ method = ""
    /\ pc = "store"
    /\ plaintext = <<>>
    /\ channel = "none"
    /\ compressed = <<>>
    /\ ret = None
    /\ window_size = 0
    /\ data = <<>>
    /\ i = 0
    /\ output_buffer = <<>>
    /\ tokens = <<>>
    /\ heap = <<>>
    /\ tree = <<>>

NextStore ==
    \E r \in Requests :
        \/ StoreValidate(r)
        \/ StoreLoad(r)
        \/ StoreOpen(r)
        \/ StoreDump(r)

SpecStore == InitStore /\ [][NextStore]_vars

\* every request has been answered
AllAnswered == pc = "store" /\ \A r \in Requests : handlers[r].pc = "done"

\* the file of path exists, parses, and holds the record
Holds(path, record) ==
    /\ path \in DOMAIN storage
    /\ storage[path].valid
    /\ \E k \in 1..Len(storage[path].db) : storage[path].db[k] = record

\* C28: once all the concurrent /store_message requests have been answered,
\* the record of every request answered 'stored' is in the db file of its
\* delivery path, the record stored earlier is still there, and a request
\* with an invalid path has left the files as they were
C28_NoLostMessage ==
    AllAnswered =>
        /\ \A r \in Requests :
               handlers[r].status = 200 =>
                   Holds(handlers[r].path, CompleteData(r, handlers[r].path))
        /\ Holds(Path.email, EarlierRecord)
        /\ (\A r \in Requests : handlers[r].status = 400) => storage = InitialStorage

====
